---------------------------- MODULE Spec2Model ----------------------------
(***************************************************************************)
(* Model of services/conversion_service.py of CAD_to_GIS: the geometry     *)
(* extraction of precise_convert (block instances, merge strategy          *)
(* selection, fallback tiers) and the line-merging helpers                 *)
(* (_merge_lines_graph, the coordinate quantizer, _coords_to_geom).        *)
(*                                                                         *)
(* Coordinates are integers (one unit = one step of the drawing grid); a   *)
(* 2D point is <<x, y>>, a flattened point is <<x, y, z>>.  A shapely      *)
(* geometry is a record [kind, parts]: kind is "Point", "LineString",      *)
(* "Polygon", "MultiLineString" or "None" (Python's None) and parts is the *)
(* sequence of its coordinate sequences.                                   *)
(***************************************************************************)
EXTENDS Integers, Sequences, FiniteSets, TLC

\* ------------------------------------------------------------------ bounds
\* Largest x coordinate of a segment endpoint handed to graph merge.
MaxCoord == 2
\* Largest number of segments handed to one graph merge call.
MaxSegs == 3

\* Largest tolerance handed to the quantizer on its own.
MaxTol == 4
\* Longest point sequence handed to the classifier.
MaxPts == 4
\* Largest threshold and segment count handed to the strategy selector.
MaxLimit == 2
\* Largest number of entities and block children one conversion run reads.
MaxItems == 3
\* The number of paths in dxf_paths.
MaxFiles == 2
\* Buckets handed to one write_outputs call.
MaxBuckets == 2
\* Background tasks started in one session of the main window.
MaxTasks == 4

\* Line-merge tolerances tried: 0 (no snapping) and 2 grid steps.
Tols == {0, 2}

\* ------------------------------------------------------------ geometry values
NoneGeom == [kind |-> "None", parts |-> <<>>]
Point(p) == [kind |-> "Point", parts |-> <<<<p>>>>]
LineString(cs) == [kind |-> "LineString", parts |-> <<cs>>]
Polygon(cs) == [kind |-> "Polygon", parts |-> <<cs>>]
MultiLineString(ls) == [kind |-> "MultiLineString", parts |-> ls]

\* A walk that never turns a segment round.
Reverse_kept(s) == s
Reverse(s) == [i \in 1..Len(s) |-> s[Len(s) + 1 - i]]
Last(s) == s[Len(s)]
Abs(n) == IF n < 0 THEN -n ELSE n

\* The sequences over S of length up to n.
RECURSIVE SeqsUpTo(_, _)
SeqsUpTo(S, n) ==
    IF n = 0 THEN {<<>>}
    ELSE LET R == SeqsUpTo(S, n - 1)
         IN  R \cup {Append(r, x) : r \in {r \in R : Len(r) = n - 1}, x \in S}

\* ls.length > 0 for LineString(cs): the length is the sum of the lengths of
\* the steps, so it is positive exactly when some step joins two different
\* points.
LengthPositive(cs) == \E i \in 1..(Len(cs) - 1) : cs[i] # cs[i + 1]

\* A GeometryCollection: its members are geometry values.
GeometryCollection(gs) == [kind |-> "GeometryCollection", parts |-> gs]

RECURSIVE IsEmptyGeom(_)
\* is_empty of a geometry value: no coordinates in any part, and for a
\* collection no member that is not empty.
IsEmptyGeom(g) ==
    \/ g.kind = "None"
    \/ g.parts = <<>>
    \/ IF g.kind = "GeometryCollection"
       THEN \A i \in 1..Len(g.parts) : IsEmptyGeom(g.parts[i])
       ELSE \A i \in 1..Len(g.parts) : g.parts[i] = <<>>

\* ---------------------------------------------------------------- quantizer
\* Python's round() of the quotient x / tol: to the nearest integer, a tie to
\* the even one.
PyRound(x, tol) ==
    LET f == x \div tol
        r == x % tol
    IN  IF 2 * r < tol THEN f
        ELSE IF 2 * r > tol THEN f + 1
        ELSE IF f % 2 = 0 THEN f ELSE f + 1

\* def q(x): return round(x / tol) * tol if tol > 0 else x
\* A quantizer that keeps the grid index and does not scale it back by tol.
q_index(x, tol) == IF tol > 0 THEN PyRound(x, tol) ELSE x
q(x, tol) == IF tol > 0 THEN PyRound(x, tol) * tol ELSE x

QPoint(p, tol) == <<q(p[1], tol), q(p[2], tol)>>

\* def q(x): return round(x / tol) * tol   (of _grid_snap_lines, reached only
\* with tol > 0: the function returns its input when tol <= 0)
grid_q(x, tol) == PyRound(x, tol) * tol

\* --------------------------------------------------------------- classifier
XY(coords) == [i \in 1..Len(coords) |-> <<coords[i][1], coords[i][2]>>]

\* A classifier for which a closed sequence of 3 points is already a polygon.
coords_to_geom_closed3(coords) ==
    LET xy == XY(coords)
    IN  IF xy = <<>> THEN <<"None", NoneGeom>>
        ELSE IF Len(xy) = 1 THEN <<"POINT", Point(xy[1])>>
        ELSE IF xy[1] = Last(xy) /\ Len(xy) >= 3 THEN <<"POLYGON", Polygon(xy)>>
        ELSE <<"LINE", LineString(xy)>>

\* _coords_to_geom(coords): the pair (gtype, geom); (None, None) is
\* <<"None", NoneGeom>>.
coords_to_geom(coords) ==
    LET xy == XY(coords)
    IN  IF xy = <<>> THEN <<"None", NoneGeom>>
        ELSE IF Len(xy) = 1 THEN <<"POINT", Point(xy[1])>>
        ELSE IF xy[1] = Last(xy) /\ Len(xy) >= 4 THEN <<"POLYGON", Polygon(xy)>>
        ELSE <<"LINE", LineString(xy)>>

\* -------------------------------------------------------- strategy selector
\* A selector that tests the small limit and the time budget before the
\* medium limit.
strategy_select_time_first(segs_seen, elapsed, small_limit, medium_limit, time_soft_ms) ==
    IF segs_seen > small_limit \/ elapsed > time_soft_ms THEN "graph"
    ELSE IF segs_seen > medium_limit THEN "explode"
    ELSE "robust"

\* strategy = "robust"; if segs_seen > medium: "explode";
\* elif segs_seen > small or elapsed_ms > soft_ms: "graph"
strategy_select(segs_seen, elapsed, small_limit, medium_limit, time_soft_ms) ==
    IF segs_seen > medium_limit THEN "explode"
    ELSE IF segs_seen > small_limit \/ elapsed > time_soft_ms THEN "graph"
    ELSE "robust"

\* ---------------------------------------------------------------- graph merge
\* endpoints / edges: one (a, b, coords) per line with at least 2 coordinates.
Usable(lines) == SelectSeq(lines, LAMBDA cs : Len(cs) >= 2)

Edges(lines, tol) ==
    LET u == Usable(lines)
    IN  [i \in 1..Len(u) |->
            [a |-> QPoint(u[i][1], tol), b |-> QPoint(Last(u[i]), tol), coords |-> u[i]]]

RECURSIVE AdjFrom(_, _, _)
\* adj[n]: the indices of the edges at node n in insertion order; an edge whose
\* two endpoints are n is listed twice.
AdjFrom(edges, n, i) ==
    IF i > Len(edges) THEN <<>>
    ELSE (IF edges[i].a = n THEN <<i>> ELSE <<>>)
         \o (IF edges[i].b = n THEN <<i>> ELSE <<>>)
         \o AdjFrom(edges, n, i + 1)

Adj(edges, n) == AdjFrom(edges, n, 1)

\* A degree that counts the segments at n, one whose two ends are n once.
node_deg_segments(edges, n) ==
    Cardinality({i \in 1..Len(edges) : edges[i].a = n \/ edges[i].b = n})

\* node_deg[n]
node_deg(edges, n) == Len(Adj(edges, n))

RECURSIVE NodeOrderFrom(_, _, _)
\* The keys of node_deg in insertion order (a before b, edge by edge).
NodeOrderFrom(edges, i, acc) ==
    IF i > Len(edges) THEN acc
    ELSE LET seen == {acc[k] : k \in 1..Len(acc)}
             acc1 == IF edges[i].a \in seen THEN acc ELSE Append(acc, edges[i].a)
             seen1 == {acc1[k] : k \in 1..Len(acc1)}
             acc2 == IF edges[i].b \in seen1 THEN acc1 ELSE Append(acc1, edges[i].b)
         IN  NodeOrderFrom(edges, i + 1, acc2)

NodeOrder(edges) == NodeOrderFrom(edges, 1, <<>>)

\* A lookup that gives up after the first edge of adj[n].
FirstUnused_head_only(edges, used, n) ==
    LET adj == Adj(edges, n)
    IN  IF adj = <<>> \/ adj[1] \in used THEN 0 ELSE adj[1]

\* The first edge of adj[n] that is not used yet, 0 when there is none.
FirstUnused(edges, used, n) ==
    LET free == SelectSeq(Adj(edges, n), LAMBDA ei : ei \notin used)
    IN  IF free = <<>> THEN 0 ELSE free[1]

\* A concatenation that always keeps both coordinates at a joint.
Extend_keep_both(path, seg) == path \o seg

\* path.extend(seg[1:] if path[-1] == seg[0] else seg)
Extend(path, seg) ==
    IF path = <<>> THEN seg
    ELSE IF Last(path) = seg[1] THEN path \o Tail(seg) ELSE path \o seg

RECURSIVE build_path_loop(_, _, _, _, _, _)
\* The while loop of build_path: walk from cur along the first unused edge,
\* stop at a node of degree # 2 or when no unused edge is left.  nodes is the
\* sequence of nodes visited and eds the sequence of edges consumed.
build_path_loop(edges, used, cur, path, nodes, eds) ==
    LET nxt == FirstUnused(edges, used, cur)
    IN  IF nxt = 0
        THEN [path |-> path, used |-> used, nodes |-> nodes, eds |-> eds, ranout |-> TRUE]
        ELSE LET e == edges[nxt]
                 fwd == e.a = cur
                 seg == IF fwd THEN e.coords ELSE Reverse(e.coords)
                 other == IF fwd THEN e.b ELSE e.a
                 path2 == Extend(path, seg)
                 used2 == used \cup {nxt}
             IN  IF node_deg(edges, other) # 2
                 THEN [path |-> path2, used |-> used2, nodes |-> Append(nodes, other),
                       eds |-> Append(eds, nxt), ranout |-> FALSE]
                 ELSE build_path_loop(edges, used2, other, path2,
                                      Append(nodes, other), Append(eds, nxt))

build_path(edges, used, start_node) ==
    build_path_loop(edges, used, start_node, <<>>, <<start_node>>, <<>>)

RECURSIVE NodePaths(_, _, _)
\* while any(not used_edge[e] for e in adj[node]): merged.append(build_path(node))
NodePaths(edges, st, node) ==
    IF FirstUnused(edges, st.used, node) = 0 THEN st
    ELSE LET w == build_path(edges, st.used, node)
         IN  NodePaths(edges,
                       [used |-> w.used,
                        merged |-> IF Len(w.path) >= 2
                                   THEN Append(st.merged, w) ELSE st.merged],
                       node)

RECURSIVE BranchPass(_, _, _, _)
\* for node, deg in node_deg.items(): if deg != 2: ...
BranchPass(edges, st, order, k) ==
    IF k > Len(order) THEN st
    ELSE IF node_deg(edges, order[k]) # 2
         THEN BranchPass(edges, NodePaths(edges, st, order[k]), order, k + 1)
         ELSE BranchPass(edges, st, order, k + 1)

RECURSIVE cycle_walk(_, _, _, _, _, _)
\* The inner while loop of the cycle pass.
cycle_walk(edges, used, cur_node, cur_coords, nodes, eds) ==
    LET nxt == FirstUnused(edges, used, cur_node)
    IN  IF nxt = 0
        THEN [path |-> cur_coords, used |-> used, nodes |-> nodes, eds |-> eds,
              ranout |-> TRUE]
        ELSE LET e == edges[nxt]
                 fwd == e.a = cur_node
                 seg == IF fwd THEN e.coords ELSE Reverse(e.coords)
                 node2 == IF fwd THEN e.b ELSE e.a
                 coords2 == IF Last(cur_coords) = seg[1]
                            THEN cur_coords \o Tail(seg) ELSE cur_coords \o seg
                 used2 == used \cup {nxt}
             IN  IF node_deg(edges, node2) # 2
                 THEN [path |-> coords2, used |-> used2, nodes |-> Append(nodes, node2),
                       eds |-> Append(eds, nxt), ranout |-> FALSE]
                 ELSE cycle_walk(edges, used2, node2, coords2,
                                 Append(nodes, node2), Append(eds, nxt))

RECURSIVE CyclePass_unmarked(_, _, _)
\* A cycle pass that starts a walk without marking its first edge as used.
CyclePass_unmarked(edges, st, ei) ==
    IF ei > Len(edges) THEN st
    ELSE IF ei \in st.used THEN CyclePass_unmarked(edges, st, ei + 1)
    ELSE LET e == edges[ei]
             w == cycle_walk(edges, st.used, e.b, e.coords, <<e.a, e.b>>, <<ei>>)
         IN  CyclePass_unmarked(edges,
                       [used |-> w.used \cup {ei},
                        merged |-> IF Len(w.path) >= 2
                                   THEN Append(st.merged, w) ELSE st.merged],
                       ei + 1)

\* A cycle pass that walks nothing.
CyclePass_skipped(edges, st, ei) == st

RECURSIVE CyclePass(_, _, _)
\* for ei, used in enumerate(used_edge): if not used: ...
CyclePass(edges, st, ei) ==
    IF ei > Len(edges) THEN st
    ELSE IF ei \in st.used THEN CyclePass(edges, st, ei + 1)
    ELSE LET e == edges[ei]
             w == cycle_walk(edges, st.used \cup {ei}, e.b, e.coords,
                             <<e.a, e.b>>, <<ei>>)
         IN  CyclePass(edges,
                       [used |-> w.used,
                        merged |-> IF Len(w.path) >= 2
                                   THEN Append(st.merged, w) ELSE st.merged],
                       ei + 1)

\* The list merged and the final used_edge of one graph merge call.
GraphWalk(lines, tol) ==
    LET edges == Edges(lines, tol)
        st0 == [used |-> {}, merged |-> <<>>]
        st1 == BranchPass(edges, st0, NodeOrder(edges), 1)
    IN  CyclePass(edges, st1, 1)

\* return merged[0] if len(merged) == 1
\*        else MultiLineString([ls for ls in merged if ls.length > 0])
GraphResult(merged) ==
    IF merged = <<>> THEN NoneGeom
    ELSE IF Len(merged) = 1 THEN LineString(merged[1].path)
    ELSE MultiLineString(
            LET keep == SelectSeq(merged, LAMBDA w : LengthPositive(w.path))
            IN  [i \in 1..Len(keep) |-> keep[i].path])

\* _merge_lines_graph(lines, tol)
merge_lines_graph(lines, tol) ==
    IF lines = <<>> THEN NoneGeom
    ELSE IF Usable(lines) = <<>> THEN NoneGeom
    ELSE GraphResult(GraphWalk(lines, tol).merged)

\* The polylines of a merge result, as a list of lines for another call.
Polylines(g) == IF g.kind = "None" THEN <<>> ELSE g.parts

\* ------------------------------------------------------------ grid snapping
RECURSIVE Dedupe(_, _)
\* clean = [new[0]]; for p in new[1:]: if p != clean[-1]: clean.append(p)
Dedupe(clean, rest) ==
    IF rest = <<>> THEN clean
    ELSE Dedupe(IF Head(rest) # Last(clean) THEN Append(clean, Head(rest)) ELSE clean,
                Tail(rest))

\* One line of _grid_snap_lines: <<>> when the line is dropped.
SnapLine(cs, tol) ==
    IF Len(cs) < 2 THEN <<>>
    ELSE LET head == <<grid_q(cs[1][1], tol), grid_q(cs[1][2], tol)>>
             tail == <<grid_q(Last(cs)[1], tol), grid_q(Last(cs)[2], tol)>>
             mid == SubSeq(cs, 2, Len(cs) - 1)
             new == <<head>> \o mid \o <<tail>>
             clean == Dedupe(<<new[1]>>, Tail(new))
         IN  IF Len(clean) >= 2 /\ LengthPositive(clean) THEN clean ELSE <<>>

\* _grid_snap_lines(lines, tol)
grid_snap_lines(lines, tol) ==
    IF tol <= 0 \/ lines = <<>> THEN lines
    ELSE SelectSeq([i \in 1..Len(lines) |-> SnapLine(lines[i], tol)],
                   LAMBDA cs : cs # <<>>)

\* What one pass (its shapely calls up to linemerge) can do: give a non-empty
\* geometry, give an empty one, or raise.
PassOutcome == {"geom", "empty", "raises"}
PassOutcomes == PassOutcome \X PassOutcome \X PassOutcome

\* The body of _merge_lines_robust when the passes behave as o says: the value
\* returned and the passes attempted.  Pass 1 stands in the outer try only, so
\* when it raises the outer handler is reached and None returned; passes 2
\* and 3 have a try of their own.  The geometry a pass gives is a non-empty
\* lineal geometry made of the snapped lines.
merge_lines_robust_run(lines, tol, o) ==
    IF lines = <<>> THEN [res |-> NoneGeom, tried |-> <<>>]
    ELSE LET L1 == grid_snap_lines(lines, tol)
             m == MultiLineString(L1)
         IN  IF L1 = <<>> THEN [res |-> NoneGeom, tried |-> <<>>]
             ELSE IF o[1] = "raises" THEN [res |-> NoneGeom, tried |-> <<1>>]
             ELSE IF o[1] = "geom" THEN [res |-> m, tried |-> <<1>>]
             ELSE IF o[2] = "geom" THEN [res |-> m, tried |-> <<1, 2>>]
             ELSE IF o[3] = "geom" THEN [res |-> m, tried |-> <<1, 2, 3>>]
             ELSE [res |-> NoneGeom, tried |-> <<1, 2, 3>>]

\* _merge_lines_robust(lines, tol): the results the three shapely passes can
\* give.  None when there is no line or none survives grid snapping; otherwise
\* the union / linemerge passes give a non-empty lineal geometry of the snapped
\* lines, or all three give nothing.
merge_lines_robust(lines, tol) ==
    {merge_lines_robust_run(lines, tol, o).res : o \in PassOutcomes}

RECURSIVE FlatLines(_)
\* The except branch of _extract_lineal: flat, the non-empty line strings of
\* the lineal members, those of a MultiLineString member one by one.
FlatLines(lines) ==
    IF lines = <<>> THEN <<>>
    ELSE LET g == Head(lines)
         IN  (IF g.kind = "LineString"
              THEN (IF IsEmptyGeom(g) THEN <<>> ELSE <<g.parts[1]>>)
              ELSE SelectSeq(g.parts, LAMBDA cs : cs # <<>>))
             \o FlatLines(Tail(lines))

\* _extract_lineal(geom) when linemerge(unary_union(lines)) behaves as oc says:
\* a non-empty LineString or MultiLineString is returned as it is; of a
\* GeometryCollection the non-empty lineal members are merged, and the result
\* is the merged geometry (a non-empty lineal geometry made of the members'
\* lines), None when the merge gives an empty geometry, and the
\* MultiLineString of the members' lines when it raises; None otherwise.
extract_lineal_run(geom, oc) ==
    IF geom.kind \in {"LineString", "MultiLineString"}
    THEN IF IsEmptyGeom(geom) THEN NoneGeom ELSE geom
    ELSE IF geom.kind = "GeometryCollection"
    THEN LET lines == SelectSeq(geom.parts,
                         LAMBDA g : g.kind \in {"LineString", "MultiLineString"}
                                    /\ ~IsEmptyGeom(g))
             flat == FlatLines(lines)
         IN  IF lines = <<>> THEN NoneGeom
             ELSE IF oc = "empty" THEN NoneGeom
             ELSE IF flat # <<>> THEN MultiLineString(flat) ELSE NoneGeom
    ELSE NoneGeom

\* _extract_lineal(geom): the values it can return.
extract_lineal(geom) == {extract_lineal_run(geom, oc) : oc \in PassOutcome}

\* str.upper() gives the tag for these strings and for no other string of
\* ASCII letters.
LineTags ==
    {"LINE", "LINe", "LInE", "LIne", "LiNE", "LiNe", "LinE", "Line", "lINE",
     "lINe", "lInE", "lIne", "liNE", "liNe", "linE", "line"}
PolygonTags ==
    {"POLYGON", "POLYGOn", "POLYGoN", "POLYGon", "POLYgON", "POLYgOn",
     "POLYgoN", "POLYgon", "POLyGON", "POLyGOn", "POLyGoN", "POLyGon",
     "POLygON", "POLygOn", "POLygoN", "POLygon", "POlYGON", "POlYGOn",
     "POlYGoN", "POlYGon", "POlYgON", "POlYgOn", "POlYgoN", "POlYgon",
     "POlyGON", "POlyGOn", "POlyGoN", "POlyGon", "POlygON", "POlygOn",
     "POlygoN", "POlygon", "PoLYGON", "PoLYGOn", "PoLYGoN", "PoLYGon",
     "PoLYgON", "PoLYgOn", "PoLYgoN", "PoLYgon", "PoLyGON", "PoLyGOn",
     "PoLyGoN", "PoLyGon", "PoLygON", "PoLygOn", "PoLygoN", "PoLygon",
     "PolYGON", "PolYGOn", "PolYGoN", "PolYGon", "PolYgON", "PolYgOn",
     "PolYgoN", "PolYgon", "PolyGON", "PolyGOn", "PolyGoN", "PolyGon",
     "PolygON", "PolygOn", "PolygoN", "Polygon", "pOLYGON", "pOLYGOn",
     "pOLYGoN", "pOLYGon", "pOLYgON", "pOLYgOn", "pOLYgoN", "pOLYgon",
     "pOLyGON", "pOLyGOn", "pOLyGoN", "pOLyGon", "pOLygON", "pOLygOn",
     "pOLygoN", "pOLygon", "pOlYGON", "pOlYGOn", "pOlYGoN", "pOlYGon",
     "pOlYgON", "pOlYgOn", "pOlYgoN", "pOlYgon", "pOlyGON", "pOlyGOn",
     "pOlyGoN", "pOlyGon", "pOlygON", "pOlygOn", "pOlygoN", "pOlygon",
     "poLYGON", "poLYGOn", "poLYGoN", "poLYGon", "poLYgON", "poLYgOn",
     "poLYgoN", "poLYgon", "poLyGON", "poLyGOn", "poLyGoN", "poLyGon",
     "poLygON", "poLygOn", "poLygoN", "poLygon", "polYGON", "polYGOn",
     "polYGoN", "polYGon", "polYgON", "polYgOn", "polYgoN", "polYgon",
     "polyGON", "polyGOn", "polyGoN", "polyGon", "polygON", "polygOn",
     "polygoN", "polygon"}
PointTags ==
    {"POINT", "POINt", "POInT", "POInt", "POiNT", "POiNt", "POinT", "POint",
     "PoINT", "PoINt", "PoInT", "PoInt", "PoiNT", "PoiNt", "PoinT", "Point",
     "pOINT", "pOINt", "pOInT", "pOInt", "pOiNT", "pOiNt", "pOinT", "pOint",
     "poINT", "poINt", "poInT", "poInt", "poiNT", "poiNt", "poinT", "point"}

RECURSIVE FixedRows(_)
\* The LINE branch of _normalize_bucket_geoms before the filter: each row with
\* its geometry replaced by what _extract_lineal returns for it.
FixedRows(rs) ==
    IF rs = <<>> THEN {<<>>}
    ELSE {<<[Head(rs) EXCEPT !.geometry = g]>> \o t :
             g \in extract_lineal(Head(rs).geometry), t \in FixedRows(Tail(rs))}

\* _normalize_bucket_geoms(layer_geom_key, gdf): the rows the bucket can have
\* after normalization.  want = (layer_geom_key[1] or "").upper() decides the
\* branch: lineal geometry extracted and missing or empty rows dropped,
\* rows that are not non-empty polygons dropped, rows that are not non-empty
\* points dropped, or the bucket returned as it is.
normalize_bucket_geoms(key, rs) ==
    IF key[2] \in LineTags
    THEN {SelectSeq(fixed, LAMBDA r : r.geometry.kind # "None" /\ ~IsEmptyGeom(r.geometry)) :
             fixed \in FixedRows(rs)}
    ELSE IF key[2] \in PolygonTags
    THEN {SelectSeq(rs, LAMBDA r : r.geometry.kind \in {"Polygon", "MultiPolygon"}
                                   /\ ~IsEmptyGeom(r.geometry))}
    ELSE IF key[2] \in PointTags
    THEN {SelectSeq(rs, LAMBDA r : r.geometry.kind \in {"Point", "MultiPoint"}
                                   /\ ~IsEmptyGeom(r.geometry))}
    ELSE {rs}

\* ---------------------------------------------------------------- flattening
LinearTypes == {"LINE", "LWPOLYLINE", "POLYLINE", "CIRCLE", "ARC", "ELLIPSE", "SPLINE"}
FaceTypes == {"3DFACE", "THREE_D_FACE", "SOLID"}
NoName == "(none)"

\* The points entities are made of: (x, y, z) as the flattening hands them on.
P0 == <<0, 0, 0>>
P1 == <<1, 0, 0>>
P2 == <<2, 0, 0>>
H0 == <<0, 0, 0>>
H1 == <<0, 1, 0>>
H2 == <<1, 1, 0>>

\* An entity as the document library hands it over: its type and layer, whether
\* ezdxf's path flattening succeeds and the points it gives, the points of the
\* closed-form fallback of its type, and the raw boundary rings of a HATCH.
\* pts of a POINT is its location, pts of a face its four vertices.
Ent(t, layer, ok, pts, fb, rings) ==
    [t |-> t, layer |-> layer, ok |-> ok, pts |-> pts, fb |-> fb, rings |-> rings]

\* pts = _flatten_with_path(e, dist), or in the except branch the fallback of
\* the entity's type (none for ELLIPSE and SPLINE).
flatten_or_fallback(e) ==
    IF e.ok THEN e.pts
    ELSE IF e.t \in {"LINE", "LWPOLYLINE", "POLYLINE", "CIRCLE", "ARC"} THEN e.fb
    ELSE <<>>

\* One ring of _flatten_hatch_rings: closed by its first point when open.
CloseRing(ring) ==
    IF ring # <<>> /\ ring[1] # Last(ring) THEN Append(ring, ring[1]) ELSE ring

\* _flatten_hatch_rings(e): the non-empty rings, closed; an entity without
\* boundary paths raises inside both try blocks and gives no ring.
flatten_hatch_rings(e) ==
    IF e.t # "HATCH" THEN <<>>
    ELSE SelectSeq([i \in 1..Len(e.rings) |-> CloseRing(e.rings[i])],
                   LAMBDA r : r # <<>>)

Row(layer, gtype, geom, bname) ==
    [layer |-> layer, geom |-> gtype, geometry |-> geom, block_name |-> bname]

RECURSIVE RingRows(_, _)
RingRows(rings, layer) ==
    IF rings = <<>> THEN <<>>
    ELSE LET g == coords_to_geom(Head(rings))
         IN  (IF g[1] # "None" /\ ~IsEmptyGeom(g[2])
              THEN <<Row(layer, g[1], g[2], NoName)>> ELSE <<>>)
             \o RingRows(Tail(rings), layer)

\* _precise_rows_from_entity(e, layer, include_3d, dist)
precise_rows_from_entity(e, layer) ==
    IF e.t \in LinearTypes
    THEN LET pts == flatten_or_fallback(e)
             g == coords_to_geom(pts)
         IN  IF pts # <<>> /\ g[1] # "None" /\ ~IsEmptyGeom(g[2])
             THEN <<Row(layer, g[1], g[2], NoName)>> ELSE <<>>
    ELSE IF e.t = "POINT"
    THEN <<Row(layer, "POINT", Point(<<e.pts[1][1], e.pts[1][2]>>), NoName)>>
    ELSE IF e.t = "HATCH" THEN RingRows(flatten_hatch_rings(e), layer)
    ELSE IF e.t \in FaceTypes
    THEN RingRows(<<Append(e.pts, e.pts[1])>>, layer)
    ELSE <<>>

\* _push_line_from_pts(pts): the list lines after the call.
push_line_from_pts(lines, pts) ==
    IF pts = <<>> THEN lines
    ELSE LET xy == XY(pts)
             cut == IF Len(xy) >= 2 /\ xy[1] = Last(xy) /\ Len(xy) >= 3
                    THEN SubSeq(xy, 1, Len(xy) - 1) ELSE xy
         IN  IF Len(cut) >= 2 THEN Append(lines, cut) ELSE lines

RECURSIVE PolysOf(_)
\* for ring in _flatten_hatch_rings(se): if gtype == "POLYGON" and geom: polys.append(geom)
PolysOf(rings) ==
    IF rings = <<>> THEN <<>>
    ELSE LET g == coords_to_geom(Head(rings))
         IN  (IF g[1] = "POLYGON" /\ ~IsEmptyGeom(g[2]) THEN <<g[2]>> ELSE <<>>)
             \o PolysOf(Tail(rings))

\* The kinds of geometry unary_union can give for a non-empty result; the code
\* does not look at the kind.
UnionKinds == {"Polygon", "MultiPolygon", "GeometryCollection"}

\* unary_union(polys) when it gives a non-empty result of the kind named: a
\* geometry made of the polygons collected.
UnionGeom(polys, kind) ==
    IF kind = "GeometryCollection" THEN GeometryCollection(polys)
    ELSE [kind |-> kind, parts |-> [i \in 1..Len(polys) |-> polys[i].parts[1]]]
\* An empty geometry (not None).
EmptyGeom == [kind |-> "GeometryCollection", parts |-> <<>>]

\* ------------------------------------------------------------------- state
VARIABLES
    g_phase,    \* graph merge run: "off", "input", "merged", "remerged"
    g_lines,    \* the segment list handed to graph merge
    g_tol,      \* its tolerance
    g_res,      \* the result of graph merge on g_lines
    g_res2,     \* the result of graph merge on the polylines of g_res
    qst,        \* one quantizer run: [phase, tol, p1, p2, k1, k2, s1, s2]
    cst,        \* one classifier run: [phase, coords, out]
    sst,        \* one strategy selection: [phase, n, t, small, medium, budget, out]
    cfg,        \* precise_convert's keyword arguments
    pc,         \* precise_convert's position in the entity loop
    rows,       \* rows: the rows produced so far
    steps,      \* entities and block children read so far
    blk,        \* the locals of the INSERT being handled
    files,      \* the loop over dxf_paths: [i, readable, ok, row0]
    out,        \* the mapping precise_convert returns
    hist,       \* what has happened in the run: a callback raised, an entity
                \* failed, and write_outputs' position and list written
    rst,        \* one robust merge call: [phase, lines, tol, tried, res]
    ui,         \* the main window: the busy flag and the task threads
    wst         \* one write_outputs call in shapefile mode

gvars == <<g_phase, g_lines, g_tol, g_res, g_res2>>
pvars == <<cfg, pc, rows, steps, blk, files, out, hist>>
xvars == <<rst, ui, wst>>
vars == <<g_phase, g_lines, g_tol, g_res, g_res2, qst, cst, sst,
          cfg, pc, rows, steps, blk, files, out, hist, rst, ui, wst>>

\* The parts of the state a run of one component leaves untouched.
GOff ==
    /\ g_phase = "off"
    /\ g_lines = <<>>
    /\ g_tol = 0
    /\ g_res = NoneGeom
    /\ g_res2 = NoneGeom
QOff == qst = [phase |-> "off"]
COff == cst = [phase |-> "off"]
SOff == sst = [phase |-> "off"]
ROff == rst = [phase |-> "off"]
UOff == ui = [phase |-> "off"]
WOff == wst = [phase |-> "off"]
POff ==
    /\ cfg = [block_mode |-> "off"]
    /\ pc = "off"
    /\ rows = <<>>
    /\ steps = 0
    /\ blk = [fin |-> "off"]
    /\ files = [i |-> 0]
    /\ out = <<>>
    /\ hist = [raised |-> FALSE, failed |-> FALSE, norm |-> 0, written |-> <<>>]

\* ------------------------------------------------------ graph merge: the run
\* Segment endpoints on the x axis, and the lines built from them: every
\* 2-point segment (zero-length ones included) and the empty line.
GPoints == {<<x, 0>> : x \in 0..MaxCoord}
GSegments == {<<a, b>> : a \in GPoints, b \in GPoints} \cup {<<>>}

GInit ==
    /\ g_phase = "input"
    /\ g_lines = <<>>
    /\ g_tol \in Tols
    /\ g_res = NoneGeom
    /\ g_res2 = NoneGeom
    /\ QOff /\ COff /\ SOff /\ POff /\ ROff /\ UOff /\ WOff

\* The caller collects one more segment.
GAddLine ==
    /\ g_phase = "input"
    /\ Len(g_lines) < MaxSegs
    /\ \E s \in GSegments : g_lines' = Append(g_lines, s)
    /\ UNCHANGED <<g_phase, g_tol, g_res, g_res2, qst, cst, sst, pvars, xvars>>

\* merged = _merge_lines_graph(lines, tol)
GMerge ==
    /\ g_phase = "input"
    /\ g_res' = merge_lines_graph(g_lines, g_tol)
    /\ g_phase' = "merged"
    /\ UNCHANGED <<g_lines, g_tol, g_res2, qst, cst, sst, pvars, xvars>>

\* _merge_lines_graph applied to the polylines it returned.
GRemerge ==
    /\ g_phase = "merged"
    /\ g_res2' = merge_lines_graph(Polylines(g_res), g_tol)
    /\ g_phase' = "remerged"
    /\ UNCHANGED <<g_lines, g_tol, g_res, qst, cst, sst, pvars, xvars>>

GNext == GAddLine \/ GMerge \/ GRemerge

SpecGraph == GInit /\ [][GNext]_vars

\* ------------------------------------- graph merge off the grid: the run
\* Endpoints of which one, (3, 0), lies off the grid of step 2 and is snapped
\* to the node (4, 0), so that segments can meet in a node without meeting in
\* a coordinate.
SnapPoints == {<<0, 0>>, <<2, 0>>, <<3, 0>>, <<4, 0>>}
SnapSegments == {<<a, b>> : a \in SnapPoints, b \in SnapPoints} \cup {<<>>}

\* The caller collects one more segment.
SnapAddLine ==
    /\ g_phase = "input"
    /\ Len(g_lines) < MaxSegs
    /\ \E s \in SnapSegments : g_lines' = Append(g_lines, s)
    /\ UNCHANGED <<g_phase, g_tol, g_res, g_res2, qst, cst, sst, pvars, xvars>>

\* merged = _merge_lines_graph(lines, tol)
SnapMerge ==
    /\ g_phase = "input"
    /\ g_res' = merge_lines_graph(g_lines, g_tol)
    /\ g_phase' = "merged"
    /\ UNCHANGED <<g_lines, g_tol, g_res2, qst, cst, sst, pvars, xvars>>

SnapNext == SnapAddLine \/ SnapMerge

SpecGraphSnap == GInit /\ [][SnapNext]_vars

\* ------------------------------------------------------ robust merge: the run
RInit ==
    /\ rst = [phase |-> "input", lines |-> <<>>, tol |-> 0]
    /\ GOff /\ QOff /\ COff /\ SOff /\ POff /\ UOff /\ WOff

\* The caller collects one more segment.
RAddLine ==
    /\ rst.phase = "input"
    /\ Len(rst.lines) < MaxSegs
    /\ \E s \in GSegments : rst' = [rst EXCEPT !.lines = Append(@, s)]
    /\ UNCHANGED <<gvars, qst, cst, sst, pvars, ui, wst>>

\* merged = _merge_lines_robust(lines, line_merge_tol, say)
RMerge ==
    /\ rst.phase = "input"
    /\ \E tol \in Tols, o \in PassOutcomes :
          LET r == merge_lines_robust_run(rst.lines, tol, o)
          IN  rst' = [phase |-> "merged", lines |-> rst.lines, tol |-> tol,
                      L1 |-> IF rst.lines = <<>> THEN <<>>
                             ELSE grid_snap_lines(rst.lines, tol),
                      o |-> o, tried |-> r.tried, res |-> r.res]
    /\ UNCHANGED <<gvars, qst, cst, sst, pvars, ui, wst>>

RNext == RAddLine \/ RMerge

SpecRobust == RInit /\ [][RNext]_vars

\* ------------------------------------------ write_outputs, shapefiles: the run
\* A bucket as write_outputs meets it: whether rows are left after
\* _normalize_bucket_geoms, whether its tag is one _shapeType knows (POINT,
\* LINE or POLYGON in any casing), and whether each writer, if it is tried on
\* the bucket, succeeds: gdf.to_file (Fiona), pyshp, the GeoJSON dump.
WriteBuckets ==
    [nonempty : BOOLEAN, supported : BOOLEAN,
     fiona : BOOLEAN, pyshp : BOOLEAN, geojson : BOOLEAN]

\* write_outputs(buckets, out_path, "ESRI Shapefile"): written = [],
\* ok_any = False; have_pyshp tells whether `import shapefile` succeeds.
ShpInit ==
    /\ \E bs \in SeqsUpTo(WriteBuckets, MaxBuckets), hp \in BOOLEAN :
          wst = [phase |-> IF bs = <<>> THEN "returned" ELSE "fiona",
                 buckets |-> bs, have_pyshp |-> hp, i |-> 1, ok_any |-> FALSE,
                 written |-> <<>>, tried |-> {}]
    /\ GOff /\ QOff /\ COff /\ SOff /\ POff /\ ROff /\ UOff

\* One bucket of a writer loop: skipped when empty after normalization,
\* otherwise tried; on success appended to written.
write_bucket(w, tier) ==
    LET b == w.buckets[w.i]
        ok == b.nonempty /\ b[tier]
    IN  [w EXCEPT !.i = @ + 1,
                  !.tried = IF b.nonempty THEN @ \cup {<<w.i, tier>>} ELSE @,
                  !.written = IF ok THEN Append(@, <<w.i, tier>>) ELSE @,
                  !.ok_any = IF ok /\ tier = "fiona" THEN TRUE ELSE @]

\* for (layer, geom), gdf in buckets.items(): ... gdf.to_file(fpath, driver=
\* "ESRI Shapefile") ... ok_any = True / except: errors.append(...)
ShpFiona ==
    /\ wst.phase = "fiona" /\ wst.i <= Len(wst.buckets)
    /\ wst' = write_bucket(wst, "fiona")
    /\ UNCHANGED <<gvars, qst, cst, sst, pvars, rst, ui>>

\* if ok_any: return written; otherwise `import shapefile as pyshp`, and the
\* GeoJSON fallback when that import fails.
ShpFionaEnd ==
    /\ wst.phase = "fiona" /\ wst.i > Len(wst.buckets)
    /\ wst' = [wst EXCEPT !.i = 1,
                          !.phase = IF wst.ok_any THEN "returned"
                                    ELSE IF wst.have_pyshp THEN "pyshp" ELSE "geojson"]
    /\ UNCHANGED <<gvars, qst, cst, sst, pvars, rst, ui>>

\* The pyshp loop, one bucket: skipped when empty after normalization, and
\* skipped with a warning when shp_type == pyshp.NULL, the tag being none of
\* POINT, LINE, POLYGON; otherwise the writer is tried.
ShpPyshp ==
    /\ wst.phase = "pyshp" /\ wst.i <= Len(wst.buckets)
    /\ wst' = IF wst.buckets[wst.i].nonempty /\ ~wst.buckets[wst.i].supported
              THEN [wst EXCEPT !.i = @ + 1]
              ELSE write_bucket(wst, "pyshp")
    /\ UNCHANGED <<gvars, qst, cst, sst, pvars, rst, ui>>

\* if written: return written; otherwise the GeoJSON fallback.
ShpPyshpEnd ==
    /\ wst.phase = "pyshp" /\ wst.i > Len(wst.buckets)
    /\ wst' = [wst EXCEPT !.i = 1,
                          !.phase = IF wst.written # <<>> THEN "returned" ELSE "geojson"]
    /\ UNCHANGED <<gvars, qst, cst, sst, pvars, rst, ui>>

\* The GeoJSON loop, one bucket.
ShpGeoJSON ==
    /\ wst.phase = "geojson" /\ wst.i <= Len(wst.buckets)
    /\ wst' = write_bucket(wst, "geojson")
    /\ UNCHANGED <<gvars, qst, cst, sst, pvars, rst, ui>>

\* return written
ShpReturn ==
    /\ wst.phase = "geojson" /\ wst.i > Len(wst.buckets)
    /\ wst' = [wst EXCEPT !.phase = "returned"]
    /\ UNCHANGED <<gvars, qst, cst, sst, pvars, rst, ui>>

ShpNext ==
    ShpFiona \/ ShpFionaEnd \/ ShpPyshp \/ ShpPyshpEnd \/ ShpGeoJSON \/ ShpReturn

SpecWrite == ShpInit /\ [][ShpNext]_vars

\* ------------------------------------------------------- main window: the run
\* The triggers that start a background task straight from their handler:
\* do_analyze (layer scan), do_show_in_map (map preview), do_convert.
TaskTriggers == {"scan", "preview", "convert"}

\* MainWindow.__init__: _busy = False, _threads = [], _temp_files = [].
\* threads is _threads, each TaskThread with its kind and what it has done so
\* far; orphans are the TaskThread objects closeEvent dropped from _threads
\* before their slot returned; box is the id of the thread whose slot stands
\* at its modal message box (0: none); dialog is the modal file dialog of
\* on_pick; files tells what _files holds (nothing, a DXF, the temporary DXF
\* of a DWG); temps is the length of _temp_files; wait tells that closeEvent
\* stands in th.wait(2000), the main thread blocked; last is the last thing
\* that happened.
UInit ==
    /\ ui = [phase |-> "shown", busy |-> FALSE, threads |-> {}, orphans |-> {},
             box |-> 0, dialog |-> FALSE, files |-> "none", temps |-> 0,
             wait |-> FALSE, n |-> 0, last |-> "shown"]
    /\ GOff /\ QOff /\ COff /\ SOff /\ POff /\ ROff /\ WOff

\* _run_in_thread(fn, on_finished, on_error): th = TaskThread(fn);
\* _threads.append(th); th.start().
run_in_thread(u, kind) ==
    [u EXCEPT !.threads = @ \cup {[id |-> u.n + 1, kind |-> kind, st |-> "running"]},
              !.n = @ + 1]

\* _set_busy(busy)
set_busy(u, busy) == [u EXCEPT !.busy = busy]

\* The TaskThread objects whose slot has not returned.
Alive(u) == u.threads \cup u.orphans

\* The main thread handles events: the window exists and closeEvent is not
\* blocked in th.wait.
Handling(u) == u.phase # "off" /\ ~u.wait

\* The window takes clicks: it is shown and no modal dialog or message box is
\* up.
Clickable(u) == u.phase = "shown" /\ ~u.wait /\ ~u.dialog /\ u.box = 0

\* A trigger handler that does not look at the busy flag.
UTrigger_unguarded ==
    /\ Clickable(ui)
    /\ ui.n < MaxTasks
    /\ \E kind \in TaskTriggers, ready \in BOOLEAN :
          ui' = IF ui.files = "none" \/ ~ready THEN [ui EXCEPT !.last = "refused"]
                ELSE [run_in_thread(set_busy(ui, TRUE), kind) EXCEPT !.last = "started"]
    /\ UNCHANGED <<gvars, qst, cst, sst, pvars, rst, wst>>

\* do_analyze / do_show_in_map / do_convert: return when busy; return after a
\* message box when the inputs are not ready; otherwise _set_busy(True), then
\* _run_in_thread.
UTrigger ==
    /\ Clickable(ui)
    /\ ui.n < MaxTasks
    /\ \E kind \in TaskTriggers, ready \in BOOLEAN :
          ui' = IF ui.busy THEN [ui EXCEPT !.last = "ignored"]
                ELSE IF ui.files = "none" \/ ~ready THEN [ui EXCEPT !.last = "refused"]
                ELSE [run_in_thread(set_busy(ui, TRUE), kind) EXCEPT !.last = "started"]
    /\ UNCHANGED <<gvars, qst, cst, sst, pvars, rst, wst>>

\* on_pick up to the file dialog: return when busy, otherwise the modal
\* dialog opens and runs its own event loop.
UPick ==
    /\ Clickable(ui)
    /\ ui.n < MaxTasks
    /\ ui' = IF ui.busy THEN [ui EXCEPT !.last = "ignored"]
             ELSE [ui EXCEPT !.dialog = TRUE, !.last = "dialog"]
    /\ UNCHANGED <<gvars, qst, cst, sst, pvars, rst, wst>>

\* on_pick after the dialog: nothing chosen, a DXF chosen, a DWG chosen with
\* DWG support off, or a DWG chosen: _set_busy(True), then _run_in_thread.
UPicked ==
    /\ Handling(ui) /\ ui.dialog
    /\ \E choice \in {"none", "dxf", "dwg-off", "dwg"} :
          ui' = IF choice = "dwg"
                THEN [run_in_thread(set_busy(ui, TRUE), "dwg")
                         EXCEPT !.dialog = FALSE, !.last = "started"]
                ELSE IF choice = "dxf"
                THEN [ui EXCEPT !.dialog = FALSE, !.files = "dxf", !.last = "picked"]
                ELSE [ui EXCEPT !.dialog = FALSE, !.last = "refused"]
    /\ UNCHANGED <<gvars, qst, cst, sst, pvars, rst, wst>>

\* TaskThread.run in the task's thread: finished.emit(res), or error.emit(..)
\* when fn raised; the slot call is queued for the main thread.  The thread
\* runs on while closeEvent waits for it and when closeEvent has dropped it
\* from _threads.
UEmit ==
    /\ ui.phase # "off"
    /\ \E th \in Alive(ui), sig \in {"finished", "error"} :
          /\ th.st = "running"
          /\ LET done(S) == IF th \in S THEN (S \ {th}) \cup {[th EXCEPT !.st = sig]} ELSE S
             IN  ui' = [ui EXCEPT !.threads = done(@), !.orphans = done(@),
                                  !.last = "emitted"]
    /\ UNCHANGED <<gvars, qst, cst, sst, pvars, rst, wst>>

\* What the finally of _fin / _err does once on_finished or on_error has
\* returned: if th in self._threads: self._threads.remove(th).
slot_return(u, id) ==
    [u EXCEPT !.threads = {t \in @ : t.id # id},
              !.orphans = {t \in @ : t.id # id},
              !.box = 0,
              !.last = "callback"]

\* _fin / _err in the main thread up to the message box: the task's _done or
\* _err calls _set_busy(False); the _done of a DWG conversion that produced a
\* DXF appends it to _temp_files and puts it into _files; then a modal message
\* box opens, and the slot returns only when it is closed.  Only the _done of
\* a preview that has features opens no box and returns at once.
UCallback ==
    /\ Handling(ui) /\ ui.box = 0
    /\ \E th \in Alive(ui), good \in BOOLEAN :
          /\ th.st \in {"finished", "error"}
          /\ LET made == th.kind = "dwg" /\ th.st = "finished" /\ good
                 u == [set_busy(ui, FALSE) EXCEPT
                          !.files = IF made THEN "temp" ELSE @,
                          !.temps = IF made THEN @ + 1 ELSE @]
             IN  ui' = IF th.kind = "preview" /\ th.st = "finished" /\ good
                       THEN slot_return(u, th.id)
                       ELSE [u EXCEPT !.box = th.id, !.last = "box"]
    /\ UNCHANGED <<gvars, qst, cst, sst, pvars, rst, wst>>

\* The message box of a callback is closed: _done or _err returns and the
\* finally of _fin / _err removes the thread from _threads if it is there.
UBoxClosed ==
    /\ Handling(ui) /\ ui.box # 0
    /\ ui' = slot_return(ui, ui.box)
    /\ UNCHANGED <<gvars, qst, cst, sst, pvars, rst, wst>>

\* What closeEvent does after its loop over _threads: _threads.clear();
\* super().closeEvent(event).  The threads dropped live on.
close_end(u) ==
    [u EXCEPT !.phase = "closed",
              !.orphans = @ \cup u.threads,
              !.threads = {},
              !.wait = FALSE,
              !.last = "closed"]

\* closeEvent up to its first wait: the temporary DXFs are removed and
\* _temp_files cleared; a thread of _threads that is running is told to quit,
\* which does not stop TaskThread.run, and th.wait(2000) blocks the main thread
\* until the thread is done or two seconds have passed.  With no running
\* thread in _threads nothing is waited for and closeEvent goes through.
\* _busy and _files are left as they are.
UClose ==
    /\ ui.phase = "shown" /\ ~ui.wait
    /\ LET u == [ui EXCEPT !.temps = 0]
       IN  ui' = IF \E th \in ui.threads : th.st = "running"
                 THEN [u EXCEPT !.wait = TRUE, !.last = "closing"]
                 ELSE close_end(u)
    /\ UNCHANGED <<gvars, qst, cst, sst, pvars, rst, wst>>

\* closeEvent after its waits, each ended by the thread or by the timeout.
UClosed ==
    /\ ui.phase = "shown" /\ ui.wait
    /\ ui' = close_end(ui)
    /\ UNCHANGED <<gvars, qst, cst, sst, pvars, rst, wst>>

UNext ==
    \/ UTrigger \/ UPick \/ UPicked \/ UEmit \/ UCallback \/ UBoxClosed
    \/ UClose \/ UClosed

SpecWindow == UInit /\ [][UNext]_vars

\* -------------------------------------------------------- quantizer: the run
QCoords == (0 - MaxTol)..MaxTol
QPoints == {<<x, y>> : x \in QCoords, y \in QCoords}

QInit ==
    /\ \E t \in 1..MaxTol, a \in QPoints, b \in QPoints :
          qst = [phase |-> "input", tol |-> t, p1 |-> a, p2 |-> b]
    /\ GOff /\ COff /\ SOff /\ POff /\ ROff /\ UOff /\ WOff

\* Both endpoints are given their node key (graph merge) and their snapped
\* position (grid snapping).
QSnap ==
    /\ qst.phase = "input"
    /\ qst' = [phase |-> "snapped", tol |-> qst.tol, p1 |-> qst.p1, p2 |-> qst.p2,
               k1 |-> QPoint(qst.p1, qst.tol), k2 |-> QPoint(qst.p2, qst.tol),
               s1 |-> <<grid_q(qst.p1[1], qst.tol), grid_q(qst.p1[2], qst.tol)>>,
               s2 |-> <<grid_q(qst.p2[1], qst.tol), grid_q(qst.p2[2], qst.tol)>>]
    /\ UNCHANGED <<gvars, cst, sst, pvars, xvars>>

SpecQuant == QInit /\ [][QSnap]_vars

\* ------------------------------------------------------- classifier: the run
CPoints == {<<x, 0, z>> : x \in 0..1, z \in 0..1}

CInit ==
    /\ \E cs \in SeqsUpTo(CPoints, MaxPts) : cst = [phase |-> "input", coords |-> cs]
    /\ GOff /\ QOff /\ SOff /\ POff /\ ROff /\ UOff /\ WOff

\* gtype, geom = _coords_to_geom(coords)
CClassify ==
    /\ cst.phase = "input"
    /\ cst' = [phase |-> "classified", coords |-> cst.coords,
               out |-> coords_to_geom(cst.coords)]
    /\ UNCHANGED <<gvars, qst, sst, pvars, xvars>>

\* _push_line_from_pts(pts) of a keep-merge block instance whose list lines
\* is still empty.
CPush ==
    /\ cst.phase = "input"
    /\ cst' = [phase |-> "pushed", coords |-> cst.coords,
               lines |-> push_line_from_pts(<<>>, cst.coords)]
    /\ UNCHANGED <<gvars, qst, sst, pvars, xvars>>

CNext == CClassify \/ CPush

SpecClassify == CInit /\ [][CNext]_vars

\* --------------------------------------------------- hatch flattening: the run
\* The boundary rings a HATCH may carry: every point sequence of up to MaxPts
\* points over three corners, the empty and the single-vertex ring included.
HPoints == {H0, H1, H2}
HRings == SeqsUpTo(HPoints, MaxPts)

\* A HATCH with one or two boundary rings is about to be converted.
HInit ==
    /\ \E rs \in {<<r1>> : r1 \in HRings} \cup {<<r1, r2>> : r1 \in HRings, r2 \in HRings} :
          cst = [phase |-> "hatch", rings |-> rs]
    /\ GOff /\ QOff /\ SOff /\ POff /\ ROff /\ UOff /\ WOff

\* rows = _precise_rows_from_entity(e, layer, ...) for the HATCH e.
HRows ==
    /\ cst.phase = "hatch"
    /\ LET e == Ent("HATCH", "A", TRUE, <<>>, <<>>, cst.rings)
       IN  cst' = [phase |-> "rows", rings |-> cst.rings,
                   flat |-> flatten_hatch_rings(e),
                   rows |-> precise_rows_from_entity(e, "A")]
    /\ UNCHANGED <<gvars, qst, sst, pvars, xvars>>

SpecHatch == HInit /\ [][HRows]_vars

\* ------------------------------------------------ strategy selector: the run
SInit ==
    /\ \E n \in 0..(MaxLimit + 1), t \in 0..MaxLimit,
          sm \in 0..MaxLimit, md \in 0..MaxLimit, bd \in 0..(MaxLimit - 1) :
          sst = [phase |-> "input", n |-> n, t |-> t, small |-> sm, medium |-> md,
                 budget |-> bd]
    /\ GOff /\ QOff /\ COff /\ POff /\ ROff /\ UOff /\ WOff

\* The decision taken once per block instance after its children are collected.
SSelect ==
    /\ sst.phase = "input"
    /\ sst' = [phase |-> "selected", n |-> sst.n, t |-> sst.t, small |-> sst.small,
               medium |-> sst.medium, budget |-> sst.budget,
               out |-> strategy_select(sst.n, sst.t, sst.small, sst.medium, sst.budget)]
    /\ UNCHANGED <<gvars, qst, cst, pvars, xvars>>

SpecSelect == SInit /\ [][SSelect]_vars

\* ------------------------------------------------- progress and grouping
\* What the progress callback does on one invocation: there is none, it
\* returns, or it raises.
Callback == {"none", "returns", "raises"}

\* A say without the try: what the callback raises reaches the caller.
say_propagating(cb) == [called |-> cb # "none", raised |-> cb = "raises"]

\* say(m): if on_progress: try: on_progress(m) / except: pass
say(cb) == [called |-> cb # "none", raised |-> FALSE]

\* The keys (layer, geom) in the order pandas' groupby gives them: sorted.
SortedKeys ==
    <<<<"A", "LINE">>, <<"A", "POINT">>, <<"A", "POLYGON">>,
      <<"B", "LINE">>, <<"B", "POINT">>, <<"B", "POLYGON">>>>

\* if not rows: return {}; for (layer, geom), sub in gdf.groupby(["layer",
\* "geom"]): out[(layer, geom)] = sub -- the buckets in the order of insertion
\* into out, each with its rows in production order.
group_rows(rs) ==
    LET keys == SelectSeq(SortedKeys,
                          LAMBDA k : \E i \in 1..Len(rs) : <<rs[i].layer, rs[i].geom>> = k)
    IN  [j \in 1..Len(keys) |->
            [key |-> keys[j],
             rows |-> SelectSeq(rs, LAMBDA r : <<r.layer, r.geom>> = keys[j])]]

\* --------------------------------------------------- precise_convert: the run

\* The entities a document may hold, as block children or in the modelspace.
EntityPool == {
    Ent("LINE", "A", TRUE, <<P0, P1>>, <<>>, <<>>),
    Ent("LINE", "B", TRUE, <<P0, P1>>, <<>>, <<>>),
    Ent("LINE", "A", TRUE, <<P1, P1>>, <<>>, <<>>),
    Ent("LINE", "A", FALSE, <<>>, <<P1, P2>>, <<>>),
    Ent("LWPOLYLINE", "A", TRUE, <<P0, P1, P2, P0>>, <<>>, <<>>),
    Ent("SPLINE", "A", FALSE, <<>>, <<>>, <<>>),
    Ent("HATCH", "A", TRUE, <<>>, <<>>, <<<<H0, H1, H2>>>>),
    Ent("3DFACE", "A", TRUE, <<H0, H1, H2, H2>>, <<>>, <<>>),
    Ent("TEXT", "A", TRUE, <<>>, <<>>, <<>>),
    Ent("POINT", "A", TRUE, <<P2>>, <<>>, <<>>) }

\* The entities met in the modelspace itself.
ModelspacePool == {
    Ent("LINE", "A", TRUE, <<P0, P1>>, <<>>, <<>>),
    Ent("LINE", "B", TRUE, <<P0, P1>>, <<>>, <<>>),
    Ent("POINT", "A", TRUE, <<P2>>, <<>>, <<>>),
    Ent("HATCH", "B", TRUE, <<>>, <<>>, <<<<H0, H1, H2>>>>),
    Ent("TEXT", "A", TRUE, <<>>, <<>>, <<>>) }

Layers == {"A", "B"}
BlockName == "BLK"
InsertPoint == <<5, 5>>

\* The locals of one INSERT.  tried, sel, union, yield, row0 and fin record
\* what happened to the instance: the tiers attempted with the result of each,
\* the strategy selected first, the outcome of the polygon union, the number
\* of geometries its children gave, len(rows) when it was reached, and how it
\* ended.
Filtered(layer) == cfg.sel_layers # {} /\ layer \notin cfg.sel_layers

\* No child of a block has been read.
NoChild == [layer |-> "0", passed |-> FALSE, t |-> "-"]

\* The child just read from virtual_entities(): its layer, whether it got
\* past the layer test to the type dispatch and the flattening behind it, and
\* its type.
ReadChild(se) == [layer |-> se.layer, passed |-> ~Filtered(se.layer), t |-> se.t]

NewBlock(layer, n) ==
    [layer |-> layer, child |-> NoChild, bname |-> BlockName, lines |-> <<>>, polys |-> <<>>,
     segs_seen |-> 0, strategy |-> "none", merged |-> NoneGeom, gtype |-> "None",
     expanded |-> FALSE, tried |-> <<>>, sel |-> "none", union |-> "pending",
     yield |-> 0, row0 |-> n, fin |-> "none"]

\* No INSERT is being handled: its locals are dead.
NoBlock == NewBlock("0", 0)

PInit ==
    /\ \E bm \in {"keep-merge", "explode"}, sl \in {{}, {"A"}},
          lim \in {<<2, 2, 0>>, <<0, 1, 2>>} :
          cfg = [block_mode |-> bm, sel_layers |-> sl,
                 keep_merge_small_limit |-> lim[1], keep_merge_medium_limit |-> lim[2],
                 keep_merge_time_soft_ms |-> 1, line_merge_tol |-> lim[3]]
    /\ pc = "files"
    /\ rows = <<>>
    /\ steps = 0
    /\ blk = NoBlock
    /\ files = [i |-> 0, readable |-> TRUE, ok |-> TRUE, row0 |-> 0]
    /\ out = <<>>
    /\ hist = [raised |-> FALSE, failed |-> FALSE, norm |-> 0, written |-> <<>>]
    /\ GOff /\ QOff /\ COff /\ SOff /\ ROff /\ UOff /\ WOff

\* if sel_layers and layer not in sel_layers: continue

\* A modelspace entity that is no INSERT.
PEntity ==
    /\ pc = "loop"
    /\ steps < MaxItems
    /\ \E e \in ModelspacePool :
          rows' = IF Filtered(e.layer) THEN rows
                  ELSE rows \o precise_rows_from_entity(e, e.layer)
    /\ steps' = steps + 1
    /\ blk' = NoBlock
    /\ UNCHANGED <<cfg, pc, files, out, hist, gvars, qst, cst, sst, xvars>>

\* An INSERT is reached: skipped when its layer is filtered out, otherwise its
\* children are expanded in the configured block mode.
PInsert ==
    /\ pc = "loop"
    /\ steps < MaxItems
    /\ \E layer \in Layers :
          IF Filtered(layer)
          THEN /\ pc' = "loop"
               /\ blk' = NoBlock
          ELSE /\ pc' = IF cfg.block_mode = "keep-merge" THEN "collect" ELSE "xcollect"
               /\ blk' = NewBlock(layer, Len(rows))
    /\ steps' = steps + 1
    /\ UNCHANGED <<cfg, rows, files, out, hist, gvars, qst, cst, sst, xvars>>

\* keep-merge children loop without the layer test on the child.
KChild_unfiltered ==
    /\ pc = "collect"
    /\ steps < MaxItems
    /\ \E se \in EntityPool :
          LET read == [layer |-> se.layer, passed |-> TRUE, t |-> se.t]
          IN  IF se.t \in LinearTypes
              THEN LET ls == push_line_from_pts(blk.lines, flatten_or_fallback(se))
                   IN  blk' = [blk EXCEPT !.lines = ls, !.segs_seen = Len(ls),
                                          !.yield = Len(ls) + Len(blk.polys),
                                          !.child = read]
              ELSE IF se.t \in {"HATCH"} \cup FaceTypes
              THEN LET ps == blk.polys \o PolysOf(flatten_hatch_rings(se))
                   IN  blk' = [blk EXCEPT !.polys = ps, !.yield = Len(blk.lines) + Len(ps),
                                          !.child = read]
              ELSE blk' = [blk EXCEPT !.child = read]
    /\ steps' = steps + 1
    /\ UNCHANGED <<cfg, pc, rows, files, out, hist, gvars, qst, cst, sst, xvars>>

\* keep-merge: one child of e.virtual_entities().
KChild ==
    /\ pc = "collect"
    /\ steps < MaxItems
    /\ \E se \in EntityPool :
          IF Filtered(se.layer) THEN blk' = [blk EXCEPT !.child = ReadChild(se)]
          ELSE IF se.t \in LinearTypes
          THEN LET ls == push_line_from_pts(blk.lines, flatten_or_fallback(se))
               IN  blk' = [blk EXCEPT !.lines = ls, !.segs_seen = Len(ls),
                                      !.yield = Len(ls) + Len(blk.polys),
                                      !.child = ReadChild(se)]
          ELSE IF se.t \in {"HATCH"} \cup FaceTypes
          THEN LET ps == blk.polys \o PolysOf(flatten_hatch_rings(se))
               IN  blk' = [blk EXCEPT !.polys = ps, !.yield = Len(blk.lines) + Len(ps),
                                      !.child = ReadChild(se)]
          ELSE blk' = [blk EXCEPT !.child = ReadChild(se)]
    /\ steps' = steps + 1
    /\ UNCHANGED <<cfg, pc, rows, files, out, hist, gvars, qst, cst, sst, xvars>>

\* The children loop ends: no more children, or virtual_entities raised and
\* the exception was caught.
KChildrenEnd ==
    /\ pc = "collect"
    /\ pc' = "select"
    /\ blk' = [blk EXCEPT !.child = NoChild]
    /\ UNCHANGED <<cfg, rows, steps, files, out, hist, gvars, qst, cst, sst, xvars>>

\* Decide merging strategy based on size/time.
KSelect ==
    /\ pc = "select"
    /\ \E elapsed_ms \in {0, cfg.keep_merge_time_soft_ms + 1} :
          LET st == strategy_select(blk.segs_seen, elapsed_ms,
                                    cfg.keep_merge_small_limit,
                                    cfg.keep_merge_medium_limit,
                                    cfg.keep_merge_time_soft_ms)
          IN  blk' = [blk EXCEPT !.strategy = st, !.sel = st]
    /\ pc' = "union"
    /\ UNCHANGED <<cfg, rows, steps, files, out, hist, gvars, qst, cst, sst, xvars>>

\* if polys: merged = unary_union(polys); a non-empty result sets gtype.
KUnion ==
    /\ pc = "union"
    /\ IF blk.polys = <<>>
       THEN blk' = [blk EXCEPT !.merged = NoneGeom, !.gtype = "None", !.union = "none"]
       ELSE \E outcome \in {"ok", "empty", "raise"}, kind \in UnionKinds :
               blk' = [blk EXCEPT
                          !.merged = IF outcome = "ok" THEN UnionGeom(blk.polys, kind)
                                     ELSE IF outcome = "empty" THEN EmptyGeom
                                     ELSE NoneGeom,
                          !.gtype = IF outcome = "ok" THEN "POLYGON" ELSE "None",
                          !.union = outcome]
    /\ pc' = "lines"
    /\ UNCHANGED <<cfg, rows, steps, files, out, hist, gvars, qst, cst, sst, xvars>>

\* A line-merge entry that does not look at the polygon result.
KLines_ignoring_union ==
    /\ pc = "lines"
    /\ pc' = IF blk.lines # <<>> THEN "robust" ELSE "emit"
    /\ UNCHANGED <<cfg, rows, steps, blk, files, out, hist, gvars, qst, cst, sst, xvars>>

\* if gtype is None and lines:
KLines ==
    /\ pc = "lines"
    /\ pc' = IF blk.gtype = "None" /\ blk.lines # <<>> THEN "robust" ELSE "emit"
    /\ UNCHANGED <<cfg, rows, steps, blk, files, out, hist, gvars, qst, cst, sst, xvars>>

Unusable(g) == g.kind = "None" \/ IsEmptyGeom(g)

\* if strategy == "robust": merged = _merge_lines_robust(...); fallback to graph
KRobust ==
    /\ pc = "robust"
    /\ IF blk.strategy = "robust"
       THEN \E m \in merge_lines_robust(blk.lines, cfg.line_merge_tol) :
               blk' = [blk EXCEPT !.merged = m,
                                  !.strategy = IF Unusable(m) THEN "graph" ELSE @,
                                  !.tried = Append(@, <<"robust", Unusable(m)>>)]
       ELSE blk' = blk
    /\ pc' = "graph"
    /\ UNCHANGED <<cfg, rows, steps, files, out, hist, gvars, qst, cst, sst, xvars>>

\* A graph tier that runs whatever strategy is current.
KGraph_any_strategy ==
    /\ pc = "graph"
    /\ IF blk.gtype = "None"
       THEN \E m \in extract_lineal(merge_lines_graph(blk.lines, cfg.line_merge_tol)) :
               blk' = [blk EXCEPT !.merged = m,
                                  !.strategy = IF Unusable(m) THEN "explode" ELSE @,
                                  !.tried = Append(@, <<"graph", Unusable(m)>>)]
       ELSE blk' = blk
    /\ pc' = "explode"
    /\ UNCHANGED <<cfg, rows, steps, files, out, hist, gvars, qst, cst, sst, xvars>>

\* if gtype is None and strategy == "graph": merged = _extract_lineal(
\* _merge_lines_graph(...)); fallback to explode
KGraph ==
    /\ pc = "graph"
    /\ IF blk.gtype = "None" /\ blk.strategy = "graph"
       THEN \E m \in extract_lineal(merge_lines_graph(blk.lines, cfg.line_merge_tol)) :
               blk' = [blk EXCEPT !.merged = m,
                                  !.strategy = IF Unusable(m) THEN "explode" ELSE @,
                                  !.tried = Append(@, <<"graph", Unusable(m)>>)]
       ELSE blk' = blk
    /\ pc' = "explode"
    /\ UNCHANGED <<cfg, rows, steps, files, out, hist, gvars, qst, cst, sst, xvars>>

\* The LINE rows of the explode tier, one per line that is not empty.
ExplodeRows(lines, layer, bname) ==
    LET keep == SelectSeq(lines, LAMBDA cs : cs # <<>>)
    IN  [i \in 1..Len(keep) |-> Row(layer, "LINE", LineString(keep[i]), bname)]

\* An explode tier that does not end the instance, so the final emit follows.
KExplode_no_continue ==
    /\ pc = "explode"
    /\ IF blk.gtype = "None" /\ blk.strategy = "explode"
       THEN /\ rows' = rows \o ExplodeRows(blk.lines, blk.layer, blk.bname)
            /\ blk' = [blk EXCEPT !.tried = Append(@, <<"explode", FALSE>>)]
       ELSE UNCHANGED <<rows, blk>>
    /\ pc' = "after"
    /\ UNCHANGED <<cfg, steps, files, out, hist, gvars, qst, cst, sst, xvars>>

\* if gtype is None and strategy == "explode": one LINE row per line; continue
KExplode ==
    /\ pc = "explode"
    /\ IF blk.gtype = "None" /\ blk.strategy = "explode"
       THEN /\ rows' = rows \o ExplodeRows(blk.lines, blk.layer, blk.bname)
            /\ blk' = [blk EXCEPT !.tried = Append(@, <<"explode", FALSE>>),
                                  !.fin = "explode"]
            /\ pc' = "loop"
       ELSE /\ pc' = "after"
            /\ UNCHANGED <<rows, blk>>
    /\ UNCHANGED <<cfg, steps, files, out, hist, gvars, qst, cst, sst, xvars>>

\* A merged line result that is left without its type tag.
KAfter_untyped ==
    /\ pc = "after"
    /\ blk' = blk
    /\ pc' = "emit"
    /\ UNCHANGED <<cfg, rows, steps, files, out, hist, gvars, qst, cst, sst, xvars>>

\* if merged is not None: gtype = "LINE"
KAfter ==
    /\ pc = "after"
    /\ blk' = [blk EXCEPT !.gtype = IF blk.merged.kind # "None" THEN "LINE" ELSE @]
    /\ pc' = "emit"
    /\ UNCHANGED <<cfg, rows, steps, files, out, hist, gvars, qst, cst, sst, xvars>>

\* The merged row, or as a last resort a POINT row at the insertion point.
KEmit ==
    /\ pc = "emit"
    /\ IF blk.merged.kind # "None" /\ blk.gtype # "None"
       THEN /\ rows' = Append(rows, Row(blk.layer, blk.gtype, blk.merged, blk.bname))
            /\ blk' = [blk EXCEPT !.fin = "merged"]
       ELSE /\ rows' = Append(rows, Row(blk.layer, "POINT", Point(InsertPoint), blk.bname))
            /\ blk' = [blk EXCEPT !.fin = "point"]
    /\ pc' = "loop"
    /\ UNCHANGED <<cfg, steps, files, out, hist, gvars, qst, cst, sst, xvars>>

\* explode mode: one child of e.virtual_entities().
XChild ==
    /\ pc = "xcollect"
    /\ steps < MaxItems
    /\ \E se \in EntityPool :
          IF Filtered(se.layer)
          THEN /\ rows' = rows
               /\ blk' = [blk EXCEPT !.child = ReadChild(se)]
          ELSE LET new == precise_rows_from_entity(se, se.layer)
               IN  /\ rows' = rows \o new
                   /\ blk' = [blk EXCEPT !.expanded = TRUE, !.yield = @ + Len(new),
                                          !.child = ReadChild(se)]
    /\ steps' = steps + 1
    /\ UNCHANGED <<cfg, pc, files, out, hist, gvars, qst, cst, sst, xvars>>

\* explode mode: the children loop ends (or raised); a POINT row at the
\* insertion point when nothing was expanded.
XChildrenEnd ==
    /\ pc = "xcollect"
    /\ rows' = IF blk.expanded THEN rows
               ELSE Append(rows, Row(blk.layer, "POINT", Point(InsertPoint), NoName))
    /\ blk' = [blk EXCEPT !.fin = "exploded", !.child = NoChild]
    /\ pc' = "loop"
    /\ UNCHANGED <<cfg, steps, files, out, hist, gvars, qst, cst, sst, xvars>>

\* A handler that ends the entity loop of the file.
PRaise_abort ==
    /\ pc \in {"collect", "select", "union", "lines", "robust", "graph", "explode",
              "after", "emit", "xcollect"}
    /\ pc' = "files"
    /\ blk' = [NoBlock EXCEPT !.fin = "failed"]
    /\ hist' = [hist EXCEPT !.failed = TRUE]
    /\ UNCHANGED <<cfg, rows, steps, files, out, gvars, qst, cst, sst, xvars>>

\* An exception reaches the handler of the entity loop (except Exception at
\* line 531) while an INSERT is being handled: the INSERT is left.
PRaise ==
    /\ pc \in {"collect", "select", "union", "lines", "robust", "graph", "explode",
              "after", "emit", "xcollect"}
    /\ pc' = "loop"
    /\ blk' = [NoBlock EXCEPT !.fin = "failed"]
    /\ hist' = [hist EXCEPT !.failed = TRUE]
    /\ UNCHANGED <<cfg, rows, steps, files, out, gvars, qst, cst, sst, xvars>>

\* The same for an entity that is no INSERT: e.dxftype() or
\* _precise_rows_from_entity raises, and no row of the entity is added.
PEntityRaise ==
    /\ pc = "loop"
    /\ steps < MaxItems
    /\ steps' = steps + 1
    /\ blk' = [NoBlock EXCEPT !.fin = "failed"]
    /\ hist' = [hist EXCEPT !.failed = TRUE]
    /\ UNCHANGED <<cfg, pc, rows, files, out, gvars, qst, cst, sst, xvars>>

\* A file loop that ends at the first path that cannot be read.
PReadFile_stop_on_error ==
    /\ pc = "files"
    /\ files.i < MaxFiles
    /\ \E readable \in BOOLEAN, cb \in Callback :
          LET ok == readable /\ ~say(cb).raised
          IN  /\ files' = [i |-> files.i + 1, readable |-> readable, ok |-> ok,
                           row0 |-> Len(rows)]
              /\ pc' = IF ok THEN "loop" ELSE "done"
              /\ hist' = [hist EXCEPT !.raised = @ \/ cb = "raises"]
    /\ UNCHANGED <<cfg, rows, steps, blk, out, gvars, qst, cst, sst, xvars>>

\* The next path of dxf_paths: say, then ezdxf.readfile inside the try; a
\* failure is reported and the loop goes on with the next path.
PReadFile ==
    /\ pc = "files"
    /\ files.i < MaxFiles
    /\ \E readable \in BOOLEAN, cb \in Callback :
          LET s == say(cb)
              ok == readable /\ ~s.raised
          IN  /\ files' = [i |-> files.i + 1, readable |-> readable, ok |-> ok,
                           row0 |-> Len(rows)]
              /\ pc' = IF ok THEN "loop" ELSE "files"
              /\ hist' = [hist EXCEPT !.raised = @ \/ cb = "raises"]
    /\ UNCHANGED <<cfg, rows, steps, blk, out, gvars, qst, cst, sst, xvars>>

\* The modelspace has no more entities: say("[convert] done file ...").
PEndFile ==
    /\ pc = "loop"
    /\ \E cb \in Callback :
          /\ pc' = IF say(cb).raised THEN "aborted" ELSE "files"
          /\ hist' = [hist EXCEPT !.raised = @ \/ cb = "raises"]
    /\ blk' = NoBlock
    /\ UNCHANGED <<cfg, rows, steps, files, out, gvars, qst, cst, sst, xvars>>

\* dxf_paths is exhausted: the rows are grouped and returned.
PReturn ==
    /\ pc = "files"
    /\ \E cb \in Callback :
          /\ pc' = IF say(cb).raised THEN "aborted" ELSE "done"
          /\ out' = IF say(cb).raised THEN <<>> ELSE group_rows(rows)
          /\ hist' = [hist EXCEPT !.raised = @ \/ cb = "raises"]
    /\ UNCHANGED <<cfg, rows, steps, blk, files, gvars, qst, cst, sst, xvars>>

\* write_outputs, one bucket of the GPKG loop: gdf = _normalize_bucket_geoms(
\* (layer, geom), gdf); a bucket that is empty after that is skipped; for
\* another gdf.to_file is called, and the bucket is appended to written with
\* its count when the call returns, while a call that raises is only
\* reported and leaves written as it is.
WBucket ==
    /\ pc = "done"
    /\ hist.norm < Len(out)
    /\ LET b == out[hist.norm + 1]
       IN  \E kept \in normalize_bucket_geoms(b.key, b.rows), ok \in BOOLEAN :
              hist' = [hist EXCEPT
                         !.norm = @ + 1,
                         !.written = IF kept = <<>> \/ ~ok THEN @
                                     ELSE Append(@, [layer |-> b.key[1], count |-> Len(kept)])]
    /\ UNCHANGED <<cfg, pc, rows, steps, blk, files, out, gvars, qst, cst, sst, xvars>>

Next ==
    \/ PReadFile \/ PEndFile \/ PReturn \/ WBucket
    \/ PEntity \/ PEntityRaise \/ PInsert \/ PRaise
    \/ KChild \/ KChildrenEnd \/ KSelect \/ KUnion \/ KLines
    \/ KRobust \/ KGraph \/ KExplode \/ KAfter \/ KEmit
    \/ XChild \/ XChildrenEnd

Spec == PInit /\ [][Next]_vars

\* ------------------------------------------------------- block instances: claims
\* The INSERT last reached has been handled to its end and nothing was added
\* to rows since.
Finished == blk.fin \in {"explode", "merged", "point", "exploded"}

\* The rows the INSERT last reached has added.
Added == SubSeq(rows, blk.row0 + 1, Len(rows))

Rank(tier) == CASE tier = "robust" -> 1 [] tier = "graph" -> 2 [] tier = "explode" -> 3

Tiers == [i \in 1..Len(blk.tried) |-> blk.tried[i][1]]

\* C2: the tiers attempted for one block instance start at the selected
\* strategy and go up one step at a time in the order robust, graph, explode;
\* a tier is followed by the next one exactly when it returned null or an
\* empty geometry, so no tier is attempted twice and none after a higher one.
C2_TierOrder ==
    cfg.block_mode = "keep-merge" =>
        /\ blk.tried # <<>> => Tiers[1] = blk.sel
        /\ \A i \in 1..(Len(blk.tried) - 1) :
              /\ blk.tried[i][2]
              /\ Rank(Tiers[i + 1]) = Rank(Tiers[i]) + 1
        /\ \A i, j \in 1..Len(blk.tried) : i < j => Rank(Tiers[i]) < Rank(Tiers[j])
        /\ (blk.tried # <<>> /\ (Finished \/ pc \in {"after", "emit"}))
              => ~Last(blk.tried)[2]
        /\ (Finished /\ blk.gtype # "POLYGON" /\ blk.lines # <<>>) => blk.tried # <<>>

\* An instance for which robust was selected went through all three tiers.
C2_Witness ==
    /\ Finished
    /\ blk.sel = "robust"
    /\ Tiers = <<"robust", "graph", "explode">>

\* C3: every INSERT whose layer passes the filter adds at least one row, in
\* both block modes, and exactly one POINT row at its insertion coordinate when
\* its children gave no geometry.
C3_InsertContributes ==
    Finished =>
        /\ Len(Added) >= 1
        /\ blk.yield = 0 =>
              /\ Len(Added) = 1
              /\ Added[1].geom = "POINT"
              /\ Added[1].geometry = Point(InsertPoint)

\* C9: when the explode tier was reached for an instance without polygon
\* result, the rows added for it are one LINE row per collected segment, in
\* collection order, each with the block name, and nothing else.
C9_ExplodeRows ==
    (Finished /\ "explode" \in {Tiers[i] : i \in 1..Len(Tiers)}) =>
        /\ blk.union # "ok"
        /\ Len(blk.lines) = blk.segs_seen
        /\ Len(Added) = blk.segs_seen
        /\ \A i \in 1..Len(Added) :
              Added[i] = Row(blk.layer, "LINE", LineString(blk.lines[i]), blk.bname)

\* Two segments were collected and the explode tier gave two LINE rows.
C9_Witness ==
    /\ Finished
    /\ Tiers = <<"explode">>
    /\ blk.segs_seen = 2
    /\ Len(Added) = 2
    /\ \A i \in 1..2 : Added[i].geom = "LINE" /\ Added[i].block_name = BlockName

\* C10: the polygon union is attempted before any line-merge tier; when it
\* gives a non-empty result the instance is that single POLYGON row and no
\* tier is run, and when it gives nothing line merging proceeds on the
\* collected segments.
C10_PolygonFirst ==
    cfg.block_mode = "keep-merge" =>
        /\ blk.tried # <<>> => blk.union \in {"none", "empty", "raise"}
        /\ (Finished /\ blk.union = "ok") =>
              /\ blk.tried = <<>>
              /\ \E kind \in UnionKinds :
                    Added = <<Row(blk.layer, "POLYGON", UnionGeom(blk.polys, kind), blk.bname)>>
        /\ (Finished /\ blk.union \in {"none", "empty", "raise"} /\ blk.lines # <<>>) =>
              blk.tried # <<>>

\* An instance with segments and rings whose union succeeded ended as one
\* POLYGON row although robust was selected.
C10_Witness ==
    /\ Finished
    /\ blk.union = "ok"
    /\ blk.lines # <<>>
    /\ blk.sel = "robust"
    /\ Len(Added) = 1
    /\ Added[1].geom = "POLYGON"

\* The four ways a keep-merge instance can end, told by the rows it added.
EndsPolygon ==
    \E kind \in UnionKinds :
       Added = <<Row(blk.layer, "POLYGON", UnionGeom(blk.polys, kind), blk.bname)>>
EndsMergedLine ==
    /\ Len(Added) = 1
    /\ Added[1] = Row(blk.layer, "LINE", blk.merged, blk.bname)
    /\ ~Unusable(blk.merged)
    /\ blk.tried # <<>> /\ Last(blk.tried)[1] \in {"robust", "graph"}
EndsExploded ==
    /\ blk.lines # <<>>
    /\ Added = [i \in 1..Len(blk.lines) |->
                   Row(blk.layer, "LINE", LineString(blk.lines[i]), blk.bname)]
    /\ blk.tried # <<>> /\ Last(blk.tried)[1] = "explode"
EndsPoint == Added = <<Row(blk.layer, "POINT", Point(InsertPoint), blk.bname)>>

\* C29: a keep-merge block instance that passed the layer filter and raised
\* no error ends in exactly one of four outcomes: one POLYGON row when the
\* polygon union gave a result; otherwise one merged LINE row or one LINE row
\* per collected segment when segments were collected; otherwise one POINT row
\* at the insertion point.  The rows are never of mixed types and all carry
\* the instance's layer and block name.
C29_OneOutcome ==
    (cfg.block_mode = "keep-merge" /\ Finished) =>
        /\ Cardinality({o \in {"polygon", "merged", "exploded", "point"} :
               \/ o = "polygon" /\ EndsPolygon
               \/ o = "merged" /\ EndsMergedLine
               \/ o = "exploded" /\ EndsExploded
               \/ o = "point" /\ EndsPoint}) = 1
        /\ EndsPolygon <=> blk.union = "ok"
        /\ (EndsMergedLine \/ EndsExploded) <=> (blk.union # "ok" /\ blk.lines # <<>>)
        /\ EndsPoint <=> (blk.union # "ok" /\ blk.lines = <<>>)
        /\ \A i, j \in 1..Len(Added) : Added[i].geom = Added[j].geom
        /\ \A i \in 1..Len(Added) :
              Added[i].layer = blk.layer /\ Added[i].block_name = blk.bname

\* An instance with one collected segment and a ring whose union gave nothing
\* ended as one merged LINE row from the graph tier.
C29_Witness ==
    /\ cfg.block_mode = "keep-merge" /\ Finished
    /\ blk.polys # <<>> /\ blk.union \in {"empty", "raise"}
    /\ Len(blk.lines) = 1
    /\ EndsMergedLine
    /\ Last(blk.tried)[1] = "graph"

\* ------------------------------------------------------- failures: claims
IsPrefix(a, b) == Len(a) <= Len(b) /\ SubSeq(b, 1, Len(a)) = a

\* The step is one in which an exception reached the handler of the entity
\* loop.
FailStep == blk'.fin = "failed" /\ (pc # "loop" \/ steps' # steps)

\* C11: a failure raised while an entity or a block instance is processed
\* never ends the entity loop: the rows produced so far are kept unchanged (no
\* step ever changes or removes a row), the failing entity adds no row from
\* then on, and control is back at the head of the loop, where the next
\* entity is taken.
C11_FailureContained ==
    [][/\ IsPrefix(rows, rows')
       /\ FailStep => (rows' = rows /\ pc' = "loop" /\ files' = files)]_vars

\* Rows had been produced, an INSERT failed, and a later INSERT was handled to
\* its end and added a row.
C11_Witness ==
    /\ hist.failed
    /\ Finished
    /\ blk.row0 >= 1
    /\ Len(Added) >= 1

\* C12: when a source file cannot be opened or parsed it contributes no row:
\* the step that takes it leaves rows unchanged and goes on to the next path
\* of the list, no step changes rows until that next path is taken, and the
\* rows of the files before it are never changed.
C12_UnreadableFileSkipped ==
    [][/\ IsPrefix(rows, rows')
       /\ (files'.i = files.i + 1 /\ ~files'.readable) =>
             (rows' = rows /\ pc' = "files" /\ ~files'.ok)
       /\ (files.i >= 1 /\ ~files.readable /\ files'.i = files.i) =>
             (rows' = rows /\ pc' \in {"files", "done"})
       /\ files'.i \in {files.i, files.i + 1}]_vars

\* A file gave rows, the next one could not be read, and the run has returned
\* the buckets of the first.
C12_Witness ==
    /\ files.i = 2
    /\ ~files.readable
    /\ files.row0 >= 1
    /\ pc = "done"
    /\ out # <<>>

\* ------------------------------------------------------- buckets: claims
\* The geometry types a bucket of a declared type may hold.
Family(geom) ==
    CASE geom = "LINE" -> {"LineString", "MultiLineString"}
      [] geom = "POLYGON" -> {"Polygon", "MultiPolygon"}
      [] geom = "POINT" -> {"Point", "MultiPoint"}
      [] OTHER -> {}

\* Every row of every bucket of the returned mapping has the bucket's layer
\* and declared type and holds a non-empty geometry of that type.
Homogeneous ==
    \A j \in 1..Len(out) :
       /\ out[j].rows # <<>>
       /\ \A i \in 1..Len(out[j].rows) :
             LET r == out[j].rows[i]
             IN  /\ <<r.layer, r.geom>> = out[j].key
                 /\ r.geometry.kind \in Family(out[j].key[2])
                 /\ ~IsEmptyGeom(r.geometry)

\* C13: every row of every bucket of the mapping precise_convert returns holds
\* a geometry of the bucket's declared type, the normalizer having been applied
\* to the rows before the mapping is exposed.
C13_NormalizedBeforeReturn ==
    pc = "done" => (Homogeneous /\ hist.norm = Len(out))

\* ---------------------------------------------------- convert: layer filter

AllRowsSelected ==
    cfg.sel_layers # {} => \A i \in 1..Len(rows) : rows[i].layer \in cfg.sel_layers

\* A step of a children loop (either block mode) that read one child.
ChildStep == pc \in {"collect", "xcollect"} /\ pc' = pc /\ steps' = steps + 1

\* C15: with a non-empty set of selected layers, a block child on another
\* layer is skipped before it reaches the type dispatch and the flattening,
\* and leaves the collected segments, the collected rings and the rows as they
\* were; and every row of the run is on a selected layer.
C15_FilteredChildSkipped ==
    /\ AllRowsSelected
    /\ [][/\ AllRowsSelected'
          /\ (ChildStep /\ Filtered(blk'.child.layer)) =>
                 /\ ~blk'.child.passed
                 /\ blk'.lines = blk.lines
                 /\ blk'.polys = blk.polys
                 /\ blk'.expanded = blk.expanded
                 /\ rows' = rows]_vars

\* A child on an unselected layer was read and skipped after a child on a
\* selected layer had contributed to the same block instance.
C15_Witness ==
    /\ pc \in {"collect", "xcollect"}
    /\ blk.child # NoChild
    /\ Filtered(blk.child.layer)
    /\ ~blk.child.passed
    /\ blk.yield > 0

\* ------------------------------------------- convert: faces in keep-merge
\* C25: in keep-merge mode every HATCH child and every planar-face child that
\* passes the layer filter adds its closed ring to the polygon set of the
\* block instance.
C25_FacesContribute ==
    [][(ChildStep /\ pc = "collect" /\ blk'.child.passed
            /\ blk'.child.t \in {"HATCH"} \cup FaceTypes)
          => Len(blk'.polys) > Len(blk.polys)]_vars

\* -------------------------------------------------- convert: the callback

\* C16: whatever the progress callback does when it is invoked (absent,
\* returning, raising), the step that invoked it has the effect it has without
\* a callback: the run is never cut short, a file is given up exactly when it
\* is unreadable, the rows are untouched by the reporting steps, and the
\* returned mapping is the grouping of all the rows.
C16_CallbackIgnored ==
    /\ pc # "aborted"
    /\ [][/\ pc' # "aborted"
          /\ (pc = "files" /\ files' # files) =>
                 /\ files' = [i |-> files.i + 1, readable |-> files'.readable,
                              ok |-> files'.readable, row0 |-> Len(rows)]
                 /\ pc' = IF files'.readable THEN "loop" ELSE "files"
                 /\ rows' = rows /\ out' = out
          /\ (pc = "files" /\ pc' = "done") =>
                 /\ out' = group_rows(rows)
                 /\ rows' = rows /\ files' = files
          /\ (pc = "loop" /\ pc' = "files") =>
                 rows' = rows /\ files' = files /\ out' = out]_vars

\* The callback raised at one of its invocations and the run still returned
\* the buckets of the rows it produced.
C16_Witness ==
    /\ hist.raised
    /\ pc = "done"
    /\ rows # <<>>
    /\ out = group_rows(rows)

\* ---------------------------------------------------- convert: bucket order

\* The index in rows of the first row of a layer.
FirstRowOf(layer) == CHOOSE i \in 1..Len(rows) :
    /\ rows[i].layer = layer
    /\ \A k \in 1..(i - 1) : rows[k].layer # layer

\* C14: the buckets of the returned mapping are in the order in which their
\* layers were first met among the rows: when the first row of one layer was
\* produced before the first row of another, every bucket of the first layer
\* precedes every bucket of the other.
C14_FirstEncounterOrder ==
    pc = "done" =>
        \A j, k \in 1..Len(out) :
           (out[j].key[1] # out[k].key[1]
               /\ FirstRowOf(out[j].key[1]) < FirstRowOf(out[k].key[1])) => j < k

\* ------------------------------------------------------- graph merge: claims
\* The nodes of the graph and its connectivity.
Nodes(edges) == {edges[i].a : i \in 1..Len(edges)} \cup {edges[i].b : i \in 1..Len(edges)}

RECURSIVE Reach(_, _)
Reach(edges, S) ==
    LET T == S \cup {edges[i].a : i \in {j \in 1..Len(edges) : edges[j].b \in S}}
               \cup {edges[i].b : i \in {j \in 1..Len(edges) : edges[j].a \in S}}
    IN  IF T = S THEN S ELSE Reach(edges, T)

Connected(edges) ==
    /\ edges # <<>>
    /\ Reach(edges, {edges[1].a}) = Nodes(edges)

\* A single connected open chain: two end nodes of degree 1, every other node
\* of degree 2.
IsOpenChain(lines, tol) ==
    LET edges == Edges(lines, tol)
    IN  /\ Connected(edges)
        /\ Cardinality({n \in Nodes(edges) : node_deg(edges, n) = 1}) = 2
        /\ \A n \in Nodes(edges) : node_deg(edges, n) \in {1, 2}

\* Exactly one closed ring: every quantized node has degree 2, one component.
IsRing(lines, tol) ==
    LET edges == Edges(lines, tol)
    IN  /\ Connected(edges)
        /\ \A n \in Nodes(edges) : node_deg(edges, n) = 2

Perms(n) == {f \in [1..n -> 1..n] : \A i, j \in 1..n : i # j => f[i] # f[j]}
Permuted(lines, f) == [i \in 1..Len(lines) |-> lines[f[i]]]

EndPair(g) == {g.parts[1][1], Last(g.parts[1])}

\* The squared length of step i of a polyline, and how often each squared step
\* length other than 0 occurs in it.  The length of the polyline is the sum of
\* the roots of these, so two polylines with the same counts have the same
\* length.
SqStep(cs, i) ==
    (cs[i][1] - cs[i + 1][1]) * (cs[i][1] - cs[i + 1][1])
      + (cs[i][2] - cs[i + 1][2]) * (cs[i][2] - cs[i + 1][2])
StepSquares(cs) ==
    LET I == 1..(Len(cs) - 1)
    IN  [d \in {SqStep(cs, i) : i \in I} \ {0} |->
            Cardinality({i \in I : SqStep(cs, i) = d})]

\* C4: for a segment list that forms one connected open chain, graph merge
\* returns one polyline, and for every permutation of the list it returns one
\* polyline with the same unordered endpoint pair and the same total length.
C4_ChainOrderIndependent ==
    (g_phase = "merged" /\ IsOpenChain(g_lines, g_tol)) =>
        /\ g_res.kind = "LineString"
        /\ \A f \in Perms(Len(g_lines)) :
              LET r == merge_lines_graph(Permuted(g_lines, f), g_tol)
              IN  /\ r.kind = "LineString"
                  /\ EndPair(r) = EndPair(g_res)
                  /\ StepSquares(r.parts[1]) = StepSquares(g_res.parts[1])

\* A chain of two or more segments has been merged, and some other order of the
\* same segments gives the polyline in another coordinate order.
C4_Witness ==
    /\ g_phase = "merged"
    /\ IsOpenChain(g_lines, g_tol)
    /\ Len(Edges(g_lines, g_tol)) >= 2
    /\ g_res.kind = "LineString"
    /\ \E f \in Perms(Len(g_lines)) :
          merge_lines_graph(Permuted(g_lines, f), g_tol) # g_res

\* C5: for a segment list that forms exactly one closed ring, graph merge
\* returns a single polyline that uses every segment and whose first and last
\* coordinates are equal.
C5_RingClosed ==
    (g_phase = "merged" /\ IsRing(g_lines, g_tol)) =>
        LET m == GraphWalk(g_lines, g_tol).merged
        IN  /\ g_res.kind = "LineString"
            /\ Len(m) = 1
            /\ {m[1].eds[i] : i \in 1..Len(m[1].eds)} = 1..Len(Edges(g_lines, g_tol))
            /\ g_res.parts[1][1] = Last(g_res.parts[1])

\* C6: graph merge applied to the polylines returned by graph merge yields the
\* same polylines with the same coordinate sequences.
C6_Idempotent ==
    g_phase = "remerged" => Polylines(g_res2) = Polylines(g_res)

\* The raw end coordinates of edge e at node n (two when e is a loop at n).
RawEnds(e, n) ==
    (IF e.a = n THEN {e.coords[1]} ELSE {}) \cup (IF e.b = n THEN {Last(e.coords)} ELSE {})

\* The raw coordinates the edges attached to node n have there.
RawAt(edges, n) == UNION {RawEnds(edges[i], n) : i \in 1..Len(edges)}

\* The joints of a chain (nodes of degree 2) whose two segments do not meet in
\* exactly the same coordinate.
InexactJoints(edges) ==
    {n \in Nodes(edges) : node_deg(edges, n) = 2 /\ Cardinality(RawAt(edges, n)) > 1}

\* C17: in a chain of k segments of 2 points, a joint where the two segments
\* meet in exactly the same coordinate is written once and a joint where they
\* differ keeps both coordinates; so k segments that meet exactly give one
\* LINE of k + 1 coordinates between the two end points of the chain.
C17_SharedPointOnce ==
    (/\ g_phase = "merged"
     /\ IsOpenChain(g_lines, g_tol)
     /\ \A i \in 1..Len(g_lines) : Len(g_lines[i]) \in {0, 2}) =>
        LET edges == Edges(g_lines, g_tol)
            k == Len(edges)
            ends == {n \in Nodes(edges) : node_deg(edges, n) = 1}
        IN  /\ g_res.kind = "LineString"
            /\ Len(g_res.parts[1]) = k + 1 + Cardinality(InexactJoints(edges))
            /\ EndPair(g_res) = UNION {RawAt(edges, n) : n \in ends}
            /\ InexactJoints(edges) = {} =>
                  /\ Len(g_res.parts[1]) = k + 1
                  /\ \A i \in 1..k : g_res.parts[1][i] # g_res.parts[1][i + 1]

\* A chain of 2 segments that meet in a node but not in a coordinate was merged
\* into a polyline of 4 coordinates.
C17_Witness ==
    /\ g_phase = "merged"
    /\ IsOpenChain(g_lines, g_tol)
    /\ Len(g_lines) = 2 /\ Len(Edges(g_lines, g_tol)) = 2
    /\ InexactJoints(Edges(g_lines, g_tol)) # {}
    /\ Len(g_res.parts[1]) = 4

\* The walks of the branching pass and those of the cycle pass, in the order
\* they were appended to merged.
BranchWalks(lines, tol) ==
    LET edges == Edges(lines, tol)
    IN  BranchPass(edges, [used |-> {}, merged |-> <<>>], NodeOrder(edges), 1).merged

CycleWalks(lines, tol) ==
    LET all == GraphWalk(lines, tol).merged
    IN  SubSeq(all, Len(BranchWalks(lines, tol)) + 1, Len(all))

\* All the edges appended to the walks, walk after walk.
RECURSIVE Consumed(_)
Consumed(walks) ==
    IF walks = <<>> THEN <<>> ELSE Head(walks).eds \o Consumed(Tail(walks))

\* C18: graph merge consumes every usable segment exactly once: after both
\* passes every edge is marked used, and every edge was appended to exactly
\* one walk, once.
C18_EveryEdgeOnce ==
    g_phase = "merged" =>
        LET edges == Edges(g_lines, g_tol)
            w == GraphWalk(g_lines, g_tol)
            eds == Consumed(w.merged)
        IN  /\ w.used = 1..Len(edges)
            /\ Len(eds) = Len(edges)
            /\ \A i \in 1..Len(edges) : Cardinality({k \in 1..Len(eds) : eds[k] = i}) = 1

\* A list with a duplicated segment and a segment whose two ends are one node
\* was merged.
C18_Witness ==
    /\ g_phase = "merged"
    /\ Len(Edges(g_lines, g_tol)) = 3
    /\ \E i, j \in 1..3 : i # j /\ g_lines[i] = g_lines[j] /\ Len(g_lines[i]) = 2
    /\ \E i \in 1..3 : Len(g_lines[i]) = 2
                        /\ QPoint(g_lines[i][1], g_tol) = QPoint(g_lines[i][2], g_tol)
                        /\ g_lines[i][1] # g_lines[i][2]
    /\ GraphWalk(g_lines, g_tol).used = {1, 2, 3}

\* C19: every path of the branching pass starts at a node of degree # 2,
\* passes only through nodes of degree 2 and ends at a node of degree # 2; it
\* never stops at a node of degree 2 for lack of an unconsumed edge.
C19_BranchPathsMaximal ==
    g_phase = "merged" =>
        LET edges == Edges(g_lines, g_tol)
            walks == BranchWalks(g_lines, g_tol)
        IN  \A k \in 1..Len(walks) :
               LET w == walks[k]
               IN  /\ ~w.ranout
                   /\ Len(w.eds) >= 1
                   /\ Len(w.nodes) = Len(w.eds) + 1
                   /\ node_deg(edges, w.nodes[1]) # 2
                   /\ node_deg(edges, Last(w.nodes)) # 2
                   /\ \A i \in 2..(Len(w.nodes) - 1) : node_deg(edges, w.nodes[i]) = 2

\* A branching pass built a path through a joint of degree 2, between two
\* nodes of degree # 2, next to another path.
C19_Witness ==
    /\ g_phase = "merged"
    /\ Len(BranchWalks(g_lines, g_tol)) = 2
    /\ \E k \in 1..2 : Len(BranchWalks(g_lines, g_tol)[k].nodes) = 3

\* The edges the branching pass has left unconsumed.
Remaining(lines, tol) ==
    LET edges == Edges(lines, tol)
        used == BranchPass(edges, [used |-> {}, merged |-> <<>>], NodeOrder(edges), 1).used
        idx == SelectSeq([i \in 1..Len(edges) |-> i], LAMBDA i : i \notin used)
    IN  [k \in 1..Len(idx) |-> edges[idx[k]]]

\* The connected components of a list of edges, as sets of nodes.
Components(edges) == {Reach(edges, {n}) : n \in Nodes(edges)}

\* C20: when the branching pass has finished every unconsumed edge has both
\* endpoints of degree 2; every walk of the cycle pass ends for lack of an
\* unconsumed edge back at the start node of its first edge, and the cycle
\* pass gives exactly one polyline per cycle that remained, each of them
\* closed: its first and last coordinates are equal.
C20_CyclePass ==
    g_phase = "merged" =>
        LET edges == Edges(g_lines, g_tol)
            rem == Remaining(g_lines, g_tol)
            walks == CycleWalks(g_lines, g_tol)
        IN  /\ \A i \in 1..Len(rem) :
                  node_deg(edges, rem[i].a) = 2 /\ node_deg(edges, rem[i].b) = 2
            /\ \A k \in 1..Len(walks) :
                  /\ walks[k].ranout
                  /\ Last(walks[k].nodes) = walks[k].nodes[1]
                  /\ \A i \in 1..Len(walks[k].nodes) :
                        node_deg(edges, walks[k].nodes[i]) = 2
                  /\ walks[k].path[1] = Last(walks[k].path)
            /\ Len(walks) = Cardinality(Components(rem))
            /\ {{walks[k].nodes[i] : i \in 1..Len(walks[k].nodes)} : k \in 1..Len(walks)}
                  = Components(rem)

\* C21: graph merge returns None exactly when no input segment was usable;
\* otherwise the result is not empty, it is the one reconstructed polyline when
\* there is exactly one, and a multi-line holding every reconstructed polyline
\* when there are more.
C21_ResultShape ==
    g_phase \in {"merged", "remerged"} =>
        LET m == GraphWalk(g_lines, g_tol).merged
        IN  /\ (g_res = NoneGeom) <=> (Usable(g_lines) = <<>>)
            /\ Usable(g_lines) # <<>> =>
                  /\ ~IsEmptyGeom(g_res)
                  /\ Len(m) = 1 => g_res = LineString(m[1].path)
                  /\ Len(m) > 1 => g_res = MultiLineString([i \in 1..Len(m) |-> m[i].path])

\* The segment ends attached to node n in the whole input, consumed or not.
TotalEnds(edges, n) ==
    Cardinality({i \in 1..Len(edges) : edges[i].a = n})
        + Cardinality({i \in 1..Len(edges) : edges[i].b = n})

\* The segments attached to node n that are not consumed yet.
Unconsumed(edges, used, n) ==
    Cardinality({i \in 1..Len(edges) : i \notin used /\ (edges[i].a = n \/ edges[i].b = n)})

\* The edges consumed when walk j has made its k-th step.
UsedAt(walks, j, k) ==
    UNION {{walks[i].eds[m] : m \in 1..Len(walks[i].eds)} : i \in 1..(j - 1)}
        \cup {walks[j].eds[m] : m \in 1..k}

\* Walk w went on after its k-th step: the stop test found degree 2.
WentOn(w, k) == k < Len(w.eds) \/ w.ranout

\* C22 as stated: at every step of every walk the degree on which the stop
\* test is evaluated is the number of segments at the node reached that are
\* not consumed yet.
C22_DegreeCountsUnconsumed ==
    g_phase = "merged" =>
        LET edges == Edges(g_lines, g_tol)
            walks == GraphWalk(g_lines, g_tol).merged
        IN  \A j \in 1..Len(walks) : \A k \in 1..Len(walks[j].eds) :
               node_deg(edges, walks[j].nodes[k + 1])
                   = Unconsumed(edges, UsedAt(walks, j, k), walks[j].nodes[k + 1])

\* C22: the degree of a node is the number of segment ends attached to it in
\* the whole input, fixed when the graph is built and not lowered when a
\* segment is consumed; at every step of a walk the stop test is evaluated on
\* that number: the walk goes on from the node reached exactly when that
\* number is 2 (the first edge of a cycle walk is taken without a test).
C22_DegreeIsStatic ==
    g_phase = "merged" =>
        LET edges == Edges(g_lines, g_tol)
            bw == BranchWalks(g_lines, g_tol)
            cw == CycleWalks(g_lines, g_tol)
        IN  /\ \A n \in Nodes(edges) : node_deg(edges, n) = TotalEnds(edges, n)
            /\ \A j \in 1..Len(bw) : \A k \in 1..Len(bw[j].eds) :
                  WentOn(bw[j], k) <=> TotalEnds(edges, bw[j].nodes[k + 1]) = 2
            /\ \A j \in 1..Len(cw) : \A k \in 2..Len(cw[j].eds) :
                  WentOn(cw[j], k) <=> TotalEnds(edges, cw[j].nodes[k + 1]) = 2

\* A walk went on through a node of degree 2 at which, the edge it came by
\* being consumed, one segment was left; and another walk stopped at a node
\* whose degree of 3 comes from a segment with both ends there.
C22_Witness ==
    /\ g_phase = "merged"
    /\ LET edges == Edges(g_lines, g_tol)
           walks == GraphWalk(g_lines, g_tol).merged
       IN  /\ \E j \in 1..Len(walks) :
                 /\ Len(walks[j].eds) >= 2
                 /\ TotalEnds(edges, walks[j].nodes[2]) = 2
                 /\ Unconsumed(edges, UsedAt(walks, j, 1), walks[j].nodes[2]) = 1
           /\ \E n \in Nodes(edges) :
                 TotalEnds(edges, n) = 3 /\ node_deg_segments(edges, n) = 2

\* ------------------------------------------------------ robust merge: claims
\* C23: the three passes are tried in their order and the first non-empty
\* result is returned; a pass that raises or gives an empty result, the first
\* included, is followed by the next pass; None is returned only when no
\* segment survived grid snapping or all three passes were tried and none gave
\* a result.
C23_PassesIsolated ==
    rst.phase = "merged" =>
        /\ \A k \in 1..Len(rst.tried) : rst.tried[k] = k
        /\ \A k \in 1..Len(rst.tried) :
               (rst.o[k] # "geom" /\ k < 3) => Len(rst.tried) > k
        /\ rst.res # NoneGeom =>
               /\ rst.tried # <<>>
               /\ rst.o[Len(rst.tried)] = "geom"
               /\ \A k \in 1..(Len(rst.tried) - 1) : rst.o[k] # "geom"
        /\ rst.res = NoneGeom =>
               \/ rst.L1 = <<>>
               \/ rst.tried = <<1, 2, 3>> /\ \A k \in 1..3 : rst.o[k] # "geom"

\* ---------------------------------------------------- hatch rings: claims
\* The row a boundary ring is to give: none for a ring of no or one vertex,
\* otherwise the ring, closed by its first point when open, typed by the
\* classification rule.
RECURSIVE RowsOfRings(_)
RowsOfRings(rings) ==
    IF rings = <<>> THEN <<>>
    ELSE LET r == Head(rings)
             closed == IF r[1] # Last(r) THEN Append(r, r[1]) ELSE r
             g == coords_to_geom(closed)
         IN  (IF Len(r) <= 1 THEN <<>> ELSE <<Row("A", g[1], g[2], NoName)>>)
             \o RowsOfRings(Tail(rings))

\* C24: every boundary ring of a HATCH gives its row independently: a ring of
\* no or one vertex gives no row, and any other ring is closed by its first
\* point when its ends differ and then typed by the classification rule.
C24_HatchRings ==
    cst.phase = "rows" => cst.rows = RowsOfRings(cst.rings)

\* ------------------------------------------------- typing call sites: claims
\* C26: the collection of line children in keep-merge mode types a point
\* sequence as the classification rule does and leaves the sequence as it is:
\* what it appends to lines is the whole sequence, and only when the rule
\* types the sequence LINE.
C26_PushUsesRule ==
    cst.phase = "pushed" =>
        LET g == coords_to_geom(cst.coords)
        IN  /\ cst.lines # <<>> => (g[1] = "LINE" /\ cst.lines[1] = XY(cst.coords))
            /\ g[1] = "LINE" => cst.lines # <<>>

\* ------------------------------------------------------ main window: claims
\* The tasks in flight: the threads started whose finished or error callback
\* has not begun.
InFlight(u) == {th \in Alive(u) : th.id # u.box}

\* C27: at most one background task is in flight at any time; the busy flag is
\* set whenever a task is in flight (it is set before the thread is started);
\* a trigger received while the flag is set starts nothing; and the flag is
\* cleared only by the finished or error callback of the task in flight.
C27_OneTaskInFlight ==
    /\ InFlight(ui) = {} /\ ~ui.busy
    /\ [][/\ Cardinality(InFlight(ui')) <= 1
          /\ InFlight(ui') # {} => ui'.busy
          /\ (ui.busy /\ ui'.last = "ignored") => Alive(ui') = Alive(ui) /\ ui'.busy
          /\ (ui.busy /\ ~ui'.busy) =>
                 \E th \in InFlight(ui) : /\ th.st \in {"finished", "error"}
                                            /\ InFlight(ui') = InFlight(ui) \ {th}]_vars

\* A trigger was ignored while the error signal of a DWG conversion, not the
\* first task of the session, was queued and its callback had not run yet.
C27_Witness ==
    /\ ui.phase = "shown"
    /\ ui.last = "ignored"
    /\ ui.n >= 2
    /\ \E th \in InFlight(ui) : th.st = "error" /\ th.kind = "dwg"

\* ---------------------------------------------------- write cascade: claims
\* C28: when write_outputs has returned in shapefile mode, every bucket that
\* is non-empty after normalization and whose primary write failed was tried
\* by a later tier (pyshp or GeoJSON), whatever became of the other buckets.
C28_CascadePerBucket ==
    wst.phase = "returned" =>
        \A k \in 1..Len(wst.buckets) :
           (wst.buckets[k].nonempty /\ ~wst.buckets[k].fiona) =>
               (<<k, "pyshp">> \in wst.tried \/ <<k, "geojson">> \in wst.tried)

\* C30: graph merge terminates, every step of a walk consuming an edge that
\* was not consumed before: every walk (each round of the per-node loop and
\* each walk of the cycle pass) takes at least one step, no walk takes an
\* edge that an earlier step has taken, and the steps of all the walks
\* together are at most as many as the usable segments.
C30_WalkStepsBounded ==
    g_phase = "merged" =>
        LET edges == Edges(g_lines, g_tol)
            walks == GraphWalk(g_lines, g_tol).merged
        IN  /\ \A j \in 1..Len(walks) :
                  /\ Len(walks[j].eds) >= 1
                  /\ \A k \in 1..Len(walks[j].eds) :
                        /\ walks[j].eds[k] \in 1..Len(edges)
                        /\ walks[j].eds[k] \notin UsedAt(walks, j, k - 1)
            /\ Len(Consumed(walks)) <= Len(edges)
            /\ Len(walks) <= Len(edges)

\* Three segments were walked in three steps: one with both ends in one node,
\* two that are duplicates of each other, meeting in a node of degree 4.
C30_Witness ==
    /\ g_phase = "merged"
    /\ LET edges == Edges(g_lines, g_tol)
       IN  /\ Len(edges) = 3
           /\ \E i \in 1..3 : edges[i].a = edges[i].b /\ g_lines[i][1] # g_lines[i][2]
           /\ \E i, j \in 1..3 : i # j /\ g_lines[i] = g_lines[j] /\ edges[i].a # edges[i].b
           /\ \E n \in Nodes(edges) : node_deg(edges, n) = 4
           /\ Len(Consumed(GraphWalk(g_lines, g_tol).merged)) = 3

\* ---------------------------------------------------------- selector: claims
\* C1: the initially selected strategy is explode if n > mediumLimit whatever
\* t is, otherwise graph if n > smallLimit or t > budget, otherwise robust.
C1_StrategyTable ==
    sst.phase = "selected" =>
        /\ sst.n > sst.medium => sst.out = "explode"
        /\ (sst.n <= sst.medium /\ (sst.n > sst.small \/ sst.t > sst.budget))
              => sst.out = "graph"
        /\ (sst.n <= sst.medium /\ sst.n <= sst.small /\ sst.t <= sst.budget)
              => sst.out = "robust"

\* A selection where the time budget is exceeded, the small limit is not, and
\* the medium limit is: explode wins over graph.
C1_Witness ==
    /\ sst.phase = "selected"
    /\ sst.n > sst.medium
    /\ sst.n <= sst.small
    /\ sst.t > sst.budget
    /\ sst.out = "explode"

\* --------------------------------------------------------- quantizer: claims
Near(a, b, tol) == 2 * Abs(a - b) < tol

\* C7 as stated: two endpoints whose x and whose y coordinates differ by less
\* than tol/2 get the identical node key (and the identical snapped position).
C7_SameKey_Original ==
    (qst.phase = "snapped"
        /\ Near(qst.p1[1], qst.p2[1], qst.tol) /\ Near(qst.p1[2], qst.p2[2], qst.tol))
    => (qst.k1 = qst.k2 /\ qst.s1 = qst.s2)

\* C7 amended: two endpoints whose x and whose y coordinates differ by less
\* than tol/2 get node keys (and snapped positions) that are identical or one
\* grid step tol apart on each axis.
C7_AdjacentKey ==
    (qst.phase = "snapped"
        /\ Near(qst.p1[1], qst.p2[1], qst.tol) /\ Near(qst.p1[2], qst.p2[2], qst.tol))
    => /\ \A ax \in 1..2 : Abs(qst.k1[ax] - qst.k2[ax]) \in {0, qst.tol}
       /\ \A ax \in 1..2 : Abs(qst.s1[ax] - qst.s2[ax]) \in {0, qst.tol}

\* Two distinct endpoints closer than tol/2 on both axes that were given
\* different node keys.
C7_Witness ==
    /\ qst.phase = "snapped"
    /\ qst.p1 # qst.p2
    /\ Near(qst.p1[1], qst.p2[1], qst.tol) /\ Near(qst.p1[2], qst.p2[2], qst.tol)
    /\ qst.k1 # qst.k2

\* -------------------------------------------------------- classifier: claims
\* C8: the classifier returns POINT for a sequence of length 1, POLYGON for a
\* sequence of length >= 4 whose first and last points (x, y) are equal, LINE
\* for every other sequence of length >= 2, and no geometry for the empty one.
C8_Classification ==
    cst.phase = "classified" =>
        LET n == Len(cst.coords)
            xy == XY(cst.coords)
            closed == n >= 1 /\ xy[1] = xy[n]
        IN  /\ n = 0 => cst.out = <<"None", NoneGeom>>
            /\ n = 1 => cst.out = <<"POINT", Point(xy[1])>>
            /\ (n >= 4 /\ closed) => cst.out = <<"POLYGON", Polygon(xy)>>
            /\ (n >= 2 /\ ~(n >= 4 /\ closed)) => cst.out = <<"LINE", LineString(xy)>>

\* A closed sequence of 3 points was typed LINE.
C8_Witness ==
    /\ cst.phase = "classified"
    /\ Len(cst.coords) = 3
    /\ XY(cst.coords)[1] = XY(cst.coords)[3]
    /\ XY(cst.coords)[1] # XY(cst.coords)[2]
    /\ cst.out[1] = "LINE"

=============================================================================
